---- MODULE Spec2Model ----
(***************************************************************************)
(* Block payload codec of the sequencer                                    *)
(* (sequencer/src/block/full_payload/payload.rs), the executor of the      *)
(* example rollup (example-l2/src/executor.rs, prover.rs) and the lazily   *)
(* initialized ApiState of the sequencer API (sequencer/src/api.rs).       *)
(*                                                                         *)
(* Byte strings are sequences of 0..255, lengths and offsets are 0-based   *)
(* as in the source.  The namespace table (NsTable), the namespace payload *)
(* (NsPayload), their builders and the transaction iterator live in        *)
(* sibling modules of payload.rs; they are modelled from the format        *)
(* description (sections 3, 4.1-4.3 and 6 of the specification), and so    *)
(* are TxProof and the VID scheme (sections 4.6 and 6).                    *)
(*                                                                         *)
(* Spec builds and inspects payloads, SpecBuild only builds them,          *)
(* SpecQuery asks one lookup of a payload, SpecShared runs every operation *)
(* on a few payloads in any order, SpecExecutor runs run_executor          *)
(* (SpecExecutorFair with fairness, SpecVisibility with a reader of the    *)
(* rollup state), SpecApi runs concurrent requests on the ApiState.        *)
(***************************************************************************)
EXTENDS Integers, Sequences, FiniteSets, TLC

\* ------------------------------------------------------------------ bounds

\* Longest input transaction sequence handed to from_transactions.
MaxTxs == 3
\* How many times from_transactions is run on the same input.
MaxRuns == 2
\* Longest raw payload, in words of W bytes, handed to from_bytes.
MaxWords == 3
\* Most entries written into a raw namespace table handed to from_bytes.
MaxEntries == 2
\* Unsigned reads saturate here: every value read from a buffer is only ever
\* compared with, or clamped to, a buffer length, and all buffers are shorter.
IntCap == 1048576
\* Tasks calling into the API concurrently.
NumCallers == 2
\* Items run_executor takes from the NewBlocks stream.
MaxEvents == 2
\* Largest num_blocks of a NewBlocks event.
MaxBatch == 2
\* Largest first_block_number of a NewBlocks event.
MaxFirstBlock == 1
\* Failed sends of one verify_blocks call before it goes through.
MaxSendRetries == 1

\* --------------------------------------------------------------- constants

\* Width in bytes of every count and offset of the wire format.
W == 4
\* Width in bytes of a namespace id.
NS_ID_BYTE_LEN == 8
\* max_block_size of the default chain configuration (NodeState::default()).
DefaultMaxBlockSize == 10240

\* ----------------------------------------------------------------- helpers

Min(a, b) == IF a <= b THEN a ELSE b

\* usize::saturating_sub
SatSub(a, b) == IF a > b THEN a - b ELSE 0

None == [kind |-> "None"]
Some(v) == [kind |-> "Some", val |-> v]
Panic == [kind |-> "Panic"]

\* buf[start..end] of the source: 0-based, end exclusive.
Slice(buf, start, end) == SubSeq(buf, start + 1, end)

\* n.to_le_bytes() cut to w bytes (the value modulo 256^w).
RECURSIVE LE(_, _)
LE(n, w) == IF w = 0 THEN <<>> ELSE <<n % 256>> \o LE(n \div 256, w - 1)

\* The unsigned little-endian value of bs, saturated at IntCap.
RECURSIVE FromLE(_)
FromLE(bs) ==
  IF bs = <<>> THEN 0 ELSE Min(IntCap, bs[1] + 256 * FromLE(Tail(bs)))

\* w bytes of buf from offset pos, zero-padded past the end of buf.
ReadBytes(buf, pos, w) ==
  [i \in 1..w |-> IF pos + i <= Len(buf) THEN buf[pos + i] ELSE 0]

ReadUint(buf, pos, w) == FromLE(ReadBytes(buf, pos, w))

\* All orderings of a finite set, as sequences.
Orderings(S) ==
  {s \in [1..Cardinality(S) -> S] : \A i, j \in DOMAIN s : s[i] = s[j] => i = j}

\* A NamespaceId: 8 opaque bytes.
NamespaceId(n) == LE(n, NS_ID_BYTE_LEN)

Transaction(ns, payload) == [namespace |-> ns, payload |-> payload]

\* u64 values are kept as hi * 2^32 + lo.
U64(hi, lo) == [hi |-> hi, lo |-> lo]

\* ---------------------------------------------------------------- NsTable

\* NsTable::len: the declared number of entries, clamped to those that fit.
num_namespaces(t) ==
  Min(ReadUint(t, 0, W), SatSub(Len(t), W) \div (NS_ID_BYTE_LEN + W))

in_bounds(t, i) == i < num_namespaces(t)

read_ns_id_unchecked(t, i) ==
  ReadBytes(t, W + i * (NS_ID_BYTE_LEN + W), NS_ID_BYTE_LEN)

read_ns_id(t, i) ==
  IF in_bounds(t, i) THEN Some(read_ns_id_unchecked(t, i)) ELSE None

read_ns_offset(t, i) ==
  ReadUint(t, W + i * (NS_ID_BYTE_LEN + W) + NS_ID_BYTE_LEN, W)

\* The byte range of namespace i in a payload of total_len bytes.
ns_range(t, i, total_len) ==
  LET end == Min(read_ns_offset(t, i), total_len)
      start == Min(IF i = 0 THEN 0 ELSE read_ns_offset(t, i - 1), end)
  IN  <<start, end>>

\* NsTableBuilder
NsTableBuilder_new == [entries |-> <<>>, num_entries |-> 0]

NsTableBuilder_fixed_overhead_byte_len == W

NsTableBuilder_ns_overhead_byte_len == NS_ID_BYTE_LEN + W

append_entry(b, ns_id, offset) ==
  [entries |-> b.entries \o ns_id \o LE(offset, W),
   num_entries |-> b.num_entries + 1]

into_ns_table(b) == LE(b.num_entries, W) \o b.entries

\* --------------------------------------------------------------- NsPayload

num_txs(p) == Min(ReadUint(p, 0, W), SatSub(Len(p), W) \div W)

tx_table_byte_len(p) == W + num_txs(p) * W

\* The byte range of transaction i inside namespace payload p.
tx_range(p, i) ==
  LET hdr == tx_table_byte_len(p)
      rem == SatSub(Len(p), hdr)
      end == Min(ReadUint(p, W + i * W, W), rem)
      start == Min(IF i = 0 THEN 0 ELSE ReadUint(p, W + (i - 1) * W, W), end)
  IN  <<start + hdr, end + hdr>>

export_tx(p, ns_id, i) ==
  IF i >= num_txs(p)
  THEN None
  ELSE Some(Transaction(ns_id, Slice(p, tx_range(p, i)[1], tx_range(p, i)[2])))

\* NsPayloadBuilder
NsPayloadBuilder_default == [tx_table_entries |-> <<>>, tx_bodies |-> <<>>]

NsPayloadBuilder_tx_overhead_byte_len == W

NsPayloadBuilder_fixed_overhead_byte_len == W

append_tx(b, tx) ==
  [tx_table_entries |->
     b.tx_table_entries \o LE(Len(b.tx_bodies) + Len(tx.payload), W),
   tx_bodies |-> b.tx_bodies \o tx.payload]

into_bytes(b) ==
  LE(Len(b.tx_table_entries) \div W, W) \o b.tx_table_entries \o b.tx_bodies

\* ------------------------------------------------------------------- Iter

\* Iter::new: positioned before the first namespace, no namespace id seen yet.
Iter_new == [cur_ns |-> 0, tx |-> 0, seen |-> {}]

\* ----------------------------------------------------------------- Payload

Payload(raw_payload, ns_table) ==
  [raw_payload |-> raw_payload, ns_table |-> ns_table]

\* byte_len counting the namespace table as well.
byte_len_WithNsTable(self) == Len(self.raw_payload) + Len(self.ns_table)

byte_len(self) == Len(self.raw_payload)

\* &self.raw_payload[range]: a range that leaves the buffer panics.
read_ns_payload(self, range) ==
  IF range[1] <= range[2] /\ range[2] <= Len(self.raw_payload)
  THEN Some(Slice(self.raw_payload, range[1], range[2]))
  ELSE Panic

\* The namespace range not clamped to the length of the payload.
ns_payload_Unclamped(self, index) ==
  read_ns_payload(self, ns_range(self.ns_table, index, IntCap))

ns_payload(self, index) ==
  read_ns_payload(self, ns_range(self.ns_table, index, byte_len(self)))

\* Payload::transaction(&Index): None, Some(tx), or a panic of the slice.
transaction(self, index) ==
  LET ns_id == read_ns_id(self.ns_table, index.ns)
      nsp == ns_payload(self, index.ns)
  IN  IF ns_id.kind = "None" THEN None
      ELSE IF nsp.kind = "Panic" THEN Panic
      ELSE export_tx(nsp.val, ns_id.val, index.tx)

\* Iter::next: the next in-bounds index, skipping namespaces whose id was
\* already seen and namespaces with no transaction left.
RECURSIVE Iter_next(_, _)
Iter_next(self, it) ==
  IF ~in_bounds(self.ns_table, it.cur_ns)
  THEN [item |-> None, it |-> it]
  ELSE LET id == read_ns_id_unchecked(self.ns_table, it.cur_ns)
           nsp == ns_payload(self, it.cur_ns)
       IN  IF id \in it.seen
           THEN Iter_next(self, [it EXCEPT !.cur_ns = @ + 1, !.tx = 0])
           ELSE IF nsp.kind = "Panic"
           THEN [item |-> Panic, it |-> it]
           ELSE IF it.tx < num_txs(nsp.val)
           THEN [item |-> Some([ns |-> it.cur_ns, tx |-> it.tx]),
                 it |-> [it EXCEPT !.tx = @ + 1]]
           ELSE Iter_next(self, [cur_ns |-> it.cur_ns + 1, tx |-> 0,
                                 seen |-> it.seen \cup {id}])

\* `as usize` in place of try_into: the high half is cut off, never an error.
max_block_byte_len_Cast(max_block_size, usize_bits) ==
  [kind |-> "Ok",
   val |-> IF usize_bits < 64 THEN U64(0, max_block_size.lo) ELSE max_block_size]

\* u64 -> usize of max_block_size: fails when the target's usize is narrower.
max_block_byte_len(max_block_size, usize_bits) ==
  IF usize_bits < 64 /\ max_block_size.hi # 0
  THEN [kind |-> "Err", error |-> "BlockBuilding"]
  ELSE [kind |-> "Ok", val |-> max_block_size]

\* The per-namespace overhead left out of the accounting.
TxByteLen_NoNsOverhead(tx, ns_builders) ==
  Len(tx.payload) + NsPayloadBuilder_tx_overhead_byte_len

\* The namespace overhead counted for every transaction, new namespace or not.
TxByteLen_NsOverheadAlways(tx, ns_builders) ==
  Len(tx.payload) + NsPayloadBuilder_tx_overhead_byte_len
  + NsTableBuilder_ns_overhead_byte_len
  + NsPayloadBuilder_fixed_overhead_byte_len

\* What one transaction adds to the tracked block byte length.
TxByteLen(tx, ns_builders) ==
  Len(tx.payload) + NsPayloadBuilder_tx_overhead_byte_len
  + (IF tx.namespace \notin DOMAIN ns_builders
     THEN NsTableBuilder_ns_overhead_byte_len
          + NsPayloadBuilder_fixed_overhead_byte_len
     ELSE 0)

\* A limit of 0 read as "no limit".
ExceedsLimit_ZeroUnlimited(block_byte_len, max) ==
  max.hi = 0 /\ max.lo # 0 /\ block_byte_len > max.lo

\* block_byte_len > max_block_byte_len
ExceedsLimit(block_byte_len, max) == max.hi = 0 /\ block_byte_len > max.lo

\* insert(ns, default) in place of entry(ns).or_default(): the builder of a
\* namespace is started afresh by each of its transactions.
EntryAppend_Fresh(ns_builders, tx) ==
  [k \in DOMAIN ns_builders \cup {tx.namespace} |->
     IF k = tx.namespace THEN append_tx(NsPayloadBuilder_default, tx)
     ELSE ns_builders[k]]

\* ns_builders.entry(ns).or_default().append_tx(tx)
EntryAppend(ns_builders, tx) ==
  LET ns == tx.namespace
      old == IF ns \in DOMAIN ns_builders
             THEN ns_builders[ns] ELSE NsPayloadBuilder_default
  IN  [k \in DOMAIN ns_builders \cup {ns} |->
         IF k = ns THEN append_tx(old, tx) ELSE ns_builders[k]]

\* `continue` in place of `break`: later transactions that fit are taken.
RECURSIVE BuilderLoop_Continue(_, _, _, _)
BuilderLoop_Continue(transactions, block_byte_len, ns_builders, max) ==
  IF transactions = <<>>
  THEN [ns_builders |-> ns_builders, block_byte_len |-> block_byte_len,
        truncated |-> FALSE]
  ELSE LET tx == Head(transactions)
           len == block_byte_len + TxByteLen(tx, ns_builders)
       IN  IF max.hi = 0 /\ len > max.lo
           THEN BuilderLoop_Continue(Tail(transactions), block_byte_len,
                                     ns_builders, max)
           ELSE BuilderLoop_Continue(Tail(transactions), len,
                                     EntryAppend(ns_builders, tx), max)

\* The loop over the input: stops at the first transaction that overflows.
RECURSIVE BuilderLoop(_, _, _, _)
BuilderLoop(transactions, block_byte_len, ns_builders, max) ==
  IF transactions = <<>>
  THEN [ns_builders |-> ns_builders, block_byte_len |-> block_byte_len,
        truncated |-> FALSE]
  ELSE LET tx == Head(transactions)
           len == block_byte_len + TxByteLen(tx, ns_builders)
       IN  IF ExceedsLimit(len, max)
           THEN [ns_builders |-> ns_builders, block_byte_len |-> len,
                 truncated |-> TRUE]
           ELSE BuilderLoop(Tail(transactions), len,
                            EntryAppend(ns_builders, tx), max)

\* The orders in which `for (ns_id, ns_builder) in ns_builders` can visit a
\* std HashMap (RandomState): unspecified, any order of its keys.
HashMapIterOrders(ns_builders) == Orderings(DOMAIN ns_builders)

\* The table entry written before the namespace payload is appended: start
\* offsets in place of end offsets.
RECURSIVE AssembleBlock_StartOffsets(_, _, _, _)
AssembleBlock_StartOffsets(ns_builders, order, payload, ns_table_builder) ==
  IF order = <<>>
  THEN Payload(payload, into_ns_table(ns_table_builder))
  ELSE LET ns_id == Head(order)
       IN  AssembleBlock_StartOffsets(
             ns_builders, Tail(order),
             payload \o into_bytes(ns_builders[ns_id]),
             append_entry(ns_table_builder, ns_id, Len(payload)))

\* The table entry holds the length of its own namespace payload, not the
\* end offset in the whole payload.
RECURSIVE AssembleBlock_LocalOffsets(_, _, _, _)
AssembleBlock_LocalOffsets(ns_builders, order, payload, ns_table_builder) ==
  IF order = <<>>
  THEN Payload(payload, into_ns_table(ns_table_builder))
  ELSE LET ns_id == Head(order)
           bytes == into_bytes(ns_builders[ns_id])
       IN  AssembleBlock_LocalOffsets(
             ns_builders, Tail(order), payload \o bytes,
             append_entry(ns_table_builder, ns_id, Len(bytes)))

\* The second loop: namespace payloads and table entries, in visiting order.
RECURSIVE AssembleBlock(_, _, _, _)
AssembleBlock(ns_builders, order, payload, ns_table_builder) ==
  IF order = <<>>
  THEN Payload(payload, into_ns_table(ns_table_builder))
  ELSE LET ns_id == Head(order)
           p == payload \o into_bytes(ns_builders[ns_id])
       IN  AssembleBlock(ns_builders, Tail(order), p,
                         append_entry(ns_table_builder, ns_id, Len(p)))

Ok(payload, metadata) ==
  [kind |-> "Ok", payload |-> payload, metadata |-> metadata]

\* Every value from_transactions_sync can return on this input.
from_transactions_sync(transactions, max_block_size, usize_bits) ==
  LET max == max_block_byte_len(max_block_size, usize_bits)
      built == BuilderLoop(transactions, NsTableBuilder_fixed_overhead_byte_len,
                           <<>>, max.val)
  IN  IF max.kind = "Err"
      THEN {[kind |-> "Err", error |-> max.error]}
      ELSE {LET p == AssembleBlock(built.ns_builders, order, <<>>,
                                   NsTableBuilder_new)
            IN  Ok(p, p.ns_table) :
              order \in HashMapIterOrders(built.ns_builders)}

\* A table whose length is not that of its declared entries is replaced by the
\* table of no namespaces.
from_bytes_Validated(block_payload_bytes, ns_table) ==
  Payload(block_payload_bytes,
          IF Len(ns_table) = W + ReadUint(ns_table, 0, W) * (NS_ID_BYTE_LEN + W)
          THEN ns_table ELSE LE(0, W))

from_bytes(block_payload_bytes, ns_table) ==
  Payload(block_payload_bytes, ns_table)

\* The metadata returned is a default (empty) table, not the payload's own.
empty_DefaultMetadata(usize_bits) ==
  {IF r.kind = "Ok" THEN Ok(r.payload, <<>>) ELSE Panic :
     r \in from_transactions_sync(<<>>, U64(0, DefaultMaxBlockSize),
                                  usize_bits)}

\* Payload::empty(): from_transactions_sync(vec![], default, default).unwrap()
empty(usize_bits) ==
  {IF r.kind = "Ok" THEN Ok(r.payload, r.payload.ns_table) ELSE Panic :
     r \in from_transactions_sync(<<>>, U64(0, DefaultMaxBlockSize),
                                  usize_bits)}

\* TestableBlock::genesis(): BlockPayload::empty().0
genesis(usize_bits) ==
  {IF r.kind = "Ok" THEN Some(r.payload) ELSE Panic : r \in empty(usize_bits)}

\* transactions() with the pairs of enumerate() taken from the back.
transactions_Reversed(pairs) ==
  [i \in 1..Len(pairs) |-> pairs[Len(pairs) + 1 - i].tx]

\* self.enumerate(metadata).map(|(_, t)| t): what transactions() yields, given
\* the pairs enumerate() yields.
transactions(pairs) == [i \in 1..Len(pairs) |-> pairs[i].tx]

\* self.iter(_meta).count(): the number of indices Iter yields.
RECURSIVE IterCount(_, _)
IterCount(self, it) ==
  LET n == Iter_next(self, it)
  IN  IF n.item.kind = "Some" THEN 1 + IterCount(self, n.it) ELSE 0

\* QueryablePayload::iter(_meta): Iter::new(self)
Payload_iter(self, meta) == Iter_new

\* The number of namespaces in place of the number of transactions.
len_NsCount(self, meta) == num_namespaces(self.ns_table)

\* QueryablePayload::len(_meta)
len(self, meta) == IterCount(self, Payload_iter(self, meta))

\* TestableBlock::txn_count: self.len(&self.ns_table)
txn_count(self) == len(self, self.ns_table)

\* Payload::ns_table()
ns_table(self) == self.ns_table

\* EncodeBytes::encode: the bytes of raw_payload.
encode(self) == self.raw_payload

\* SHA-256 is kept as its input: distinct inputs are distinct digests.
Sha256(bytes) == [sha256 |-> bytes]

\* The namespace table hashed once: the metadata updates left out.
builder_commitment_Once(self, metadata) ==
  Sha256(LE(Len(self.raw_payload), 8)
         \o LE(Len(self.ns_table), 8)
         \o self.raw_payload
         \o self.ns_table)

\* builder_commitment without the three length prefixes.
builder_commitment_NoLengths(self, metadata) ==
  Sha256(self.raw_payload \o self.ns_table \o metadata)

builder_commitment(self, metadata) ==
  LET ns_table_bytes == self.ns_table
      metadata_bytes == metadata
  IN  Sha256(LE(Len(self.raw_payload), 8)
             \o LE(Len(ns_table_bytes), 8)
             \o LE(Len(metadata_bytes), 8)
             \o self.raw_payload
             \o ns_table_bytes
             \o metadata_bytes)

\* ------------------------------------------------------------ VID, TxProof

\* hotshot_types::vid::vid_scheme(num_storage_nodes)
vid_scheme(num_storage_nodes) == [num_storage_nodes |-> num_storage_nodes]

\* VidScheme::disperse: the commitment and the common data are kept as what
\* they bind, the payload and the parameters of the scheme.
disperse(vid, bytes) ==
  [commit |-> [payload |-> bytes, num_storage_nodes |-> vid.num_storage_nodes],
   common |-> [payload_byte_len |-> Len(bytes),
               num_storage_nodes |-> vid.num_storage_nodes]]

get_payload_byte_len(common) == common.payload_byte_len

get_num_storage_nodes(common) == common.num_storage_nodes

\* An opening of a byte range of the dispersed bytes under a scheme.
payload_proof(vid, bytes, range) ==
  [num_storage_nodes |-> vid.num_storage_nodes, range |-> range]

\* The opening is for this range under the scheme of the commitment, and the
\* committed bytes of the range are `bytes`.
payload_verify(vid, opening, commit, common, range, bytes) ==
  /\ vid.num_storage_nodes = commit.num_storage_nodes
  /\ common.num_storage_nodes = commit.num_storage_nodes
  /\ common.payload_byte_len = Len(commit.payload)
  /\ opening.num_storage_nodes = commit.num_storage_nodes
  /\ opening.range = range
  /\ range[1] <= range[2] /\ range[2] <= Len(commit.payload)
  /\ Slice(commit.payload, range[1], range[2]) = bytes

\* PayloadByteLen::from_vid_common
from_vid_common(common) == get_payload_byte_len(common)

\* PayloadByteLen::is_consistent
is_consistent(payload_byte_len, common) ==
  payload_byte_len = get_payload_byte_len(common)

\* NsTable::find_ns_id: the first entry with this id.
find_ns_id(t, ns_id) ==
  LET found == {i \in 0..(num_namespaces(t) - 1) :
                  read_ns_id_unchecked(t, i) = ns_id}
  IN  IF found = {} THEN None
      ELSE Some(CHOOSE i \in found : \A j \in found : i <= j)

\* The block range of the tx count of a namespace at ns_range.
NumTxsRange(ns_range_) ==
  <<ns_range_[1], ns_range_[1] + Min(W, ns_range_[2] - ns_range_[1])>>

\* The block range of the one or two tx table entries that bracket tx.
TxTableEntriesRange(ns_range_, tx) ==
  LET ns_len == ns_range_[2] - ns_range_[1]
  IN  <<ns_range_[1] + Min(ns_len, W + (IF tx = 0 THEN 0 ELSE tx - 1) * W),
        ns_range_[1] + Min(ns_len, W + (tx + 1) * W)>>

\* The block range of the tx payload, from the opened count and entries.
TxPayloadRange(ns_range_, tx, num_txs_bytes, entries_bytes) ==
  LET ns_len == ns_range_[2] - ns_range_[1]
      n == Min(ReadUint(num_txs_bytes, 0, W), SatSub(ns_len, W) \div W)
      hdr == W + n * W
      end == Min(ReadUint(entries_bytes, IF tx = 0 THEN 0 ELSE W, W),
                 SatSub(ns_len, hdr))
      start == Min(IF tx = 0 THEN 0 ELSE ReadUint(entries_bytes, 0, W), end)
  IN  <<ns_range_[1] + hdr + start, ns_range_[1] + hdr + end>>

\* TxProof::new(index, payload, common)
TxProof_new(index, payload, common) ==
  LET raw == payload.raw_payload
      nsr == ns_range(payload.ns_table, index.ns, byte_len(payload))
      nsp == Slice(raw, nsr[1], nsr[2])
      vid == vid_scheme(get_num_storage_nodes(common))
      num_txs_range == NumTxsRange(nsr)
      entries_range == TxTableEntriesRange(nsr, index.tx)
      num_txs_bytes == Slice(raw, num_txs_range[1], num_txs_range[2])
      entries_bytes == Slice(raw, entries_range[1], entries_range[2])
      txr == TxPayloadRange(nsr, index.tx, num_txs_bytes, entries_bytes)
  IN  IF from_vid_common(common) # byte_len(payload) THEN None
      ELSE IF ~in_bounds(payload.ns_table, index.ns) THEN None
      ELSE IF index.tx >= num_txs(nsp) THEN None
      ELSE Some([tx |-> Transaction(
                          read_ns_id_unchecked(payload.ns_table, index.ns),
                          Slice(raw, txr[1], txr[2])),
                 proof |->
                   [tx_index |-> index.tx,
                    payload_num_txs |-> num_txs_bytes,
                    payload_proof_num_txs |->
                      payload_proof(vid, raw, num_txs_range),
                    payload_tx_table_entries |-> entries_bytes,
                    payload_proof_tx_table_entries |->
                      payload_proof(vid, raw, entries_range),
                    payload_proof_tx |-> payload_proof(vid, raw, txr)]])

\* TxProof::verify(ns_table, tx, commit, common): TRUE iff it accepts.
TxProof_verify(proof, t, tx, commit, common) ==
  LET vid == vid_scheme(get_num_storage_nodes(common))
      ns_index == find_ns_id(t, tx.namespace)
      nsr == ns_range(t, ns_index.val, get_payload_byte_len(common))
      n == Min(ReadUint(proof.payload_num_txs, 0, W),
               SatSub(nsr[2] - nsr[1], W) \div W)
      txr == TxPayloadRange(nsr, proof.tx_index, proof.payload_num_txs,
                            proof.payload_tx_table_entries)
  IN  /\ ns_index.kind = "Some"
      /\ proof.tx_index < n
      /\ payload_verify(vid, proof.payload_proof_num_txs, commit, common,
                        NumTxsRange(nsr), proof.payload_num_txs)
      /\ payload_verify(vid, proof.payload_proof_tx_table_entries, commit,
                        common, TxTableEntriesRange(nsr, proof.tx_index),
                        proof.payload_tx_table_entries)
      /\ payload_verify(vid, proof.payload_proof_tx, commit, common, txr,
                        tx.payload)

\* The made-up VidCommon taken from a dispersal of the metadata bytes.
transaction_with_proof_CommonOfMeta(self, meta, index) ==
  LET common == disperse(vid_scheme(10), meta).common
  IN  TxProof_new(index, self, common)

\* QueryablePayload::transaction_with_proof(_meta, index): the VidCommon is
\* made up here, from a dispersal of the payload among 10 storage nodes.
transaction_with_proof(self, meta, index) ==
  LET common == disperse(vid_scheme(10), self.raw_payload).common
  IN  TxProof_new(index, self, common)

\* ------------------------------------------------------------------ inputs

\* Namespace ids and transaction payloads of the input transactions.
NsIds == {NamespaceId(3), NamespaceId(9)}

TxPayloads == {<<>>, <<97>>, <<98, 98>>}

Transactions == {Transaction(ns, b) : ns \in NsIds, b \in TxPayloads}

RECURSIVE SeqsUpTo(_, _)
SeqsUpTo(S, n) ==
  IF n = 0 THEN {<<>>}
  ELSE LET shorter == SeqsUpTo(S, n - 1)
       IN  shorter \cup {Append(s, x) : s \in {t \in shorter : Len(t) = n - 1},
                                        x \in S}

\* The single transaction (7, "hello").
Hello == Transaction(NamespaceId(7), <<104, 101, 108, 108, 111>>)

TxSeqs == SeqsUpTo(Transactions, MaxTxs) \cup {<<Hello>>}

\* chain_config.max_block_size with the pointer width of the build: sizes
\* below, at and above the costs of the inputs on a 64-bit target, and on a
\* 32-bit target also one that needs more than 32 bits.
Instances ==
  {<<U64(0, n), 64>> : n \in {0, 3, 4, 24, 46, 50}}
  \cup {<<U64(1, 0), 64>>, <<U64(1, 0), 32>>, <<U64(0, 24), 32>>}

UsizeBits == {32, 64}

\* Raw bytes handed to from_bytes: words of W bytes and a ragged tail.
Word(n) == IF n = IntCap THEN <<255, 255, 255, 255>> ELSE LE(n, W)

RECURSIVE Flatten(_)
Flatten(ss) == IF ss = <<>> THEN <<>> ELSE Head(ss) \o Flatten(Tail(ss))

RawWords == {Word(n) : n \in {0, 1, 2, IntCap}}

RawPayloads ==
  {Flatten(ws) \o tail : ws \in SeqsUpTo(RawWords, MaxWords),
                         tail \in {<<>>, <<104>>}}

RawEntries ==
  {NamespaceId(0) \o Word(8), NamespaceId(0) \o Word(10000),
   NamespaceId(7) \o Word(10000)}

RawNsTables ==
  {Word(m) \o Flatten(es) : m \in {1, 2, IntCap},
                            es \in SeqsUpTo(RawEntries, MaxEntries)}
  \cup {<<>>, <<1, 0>>, Word(0)}

\* The indices looked up: every namespace index up to one past the most
\* entries a table here holds, every tx index up to one past the most offsets a
\* payload here holds.
Indices == {[ns |-> n, tx |-> t] : n \in 0..MaxEntries, t \in 0..(MaxWords - 1)}

\* Metadata arguments a caller can pass besides the payload's own table.
OtherMetadata == {<<>>, LE(1, W) \o NamespaceId(7) \o LE(8, W)}

\* ------------------------------------------------------------------- state

VARIABLES
  txs,             \* from_transactions: the input transactions
  max_block_size,  \* from_transactions: instance_state.chain_config.max_block_size
  usize_bits,      \* pointer width of the build
  in_bytes,        \* from_bytes: block_payload_bytes
  in_table,        \* from_bytes: ns_table
  origin,          \* the constructor that made `self`
  ret,             \* what from_transactions / empty returned last
  prev_ret,        \* what the run of from_transactions before that returned
  runs,            \* runs of from_transactions so far
  self,            \* the Payload under inspection
  iter,            \* the iterator of enumerate()/transactions(), once created
  yielded,         \* the (Index, Transaction) pairs it has yielded
  panicked,        \* an operation panicked
  commitment,      \* the last builder_commitment and its metadata argument
  answer           \* the last other query on `self`, its argument and answer

payload_vars ==
  <<txs, max_block_size, usize_bits, in_bytes, in_table, origin, ret,
    prev_ret, runs, self, iter, yielded, panicked, commitment, answer>>

\* run_executor (example-l2): one executor task and what it has done.
VARIABLES
  ex_pc,         \* where run_executor stands
  ex_events,     \* items taken from the NewBlocks stream so far
  ex_event,      \* the event being processed: first_block, num_blocks
  ex_i,          \* the loop variable i of the batch
  ex_proofs,     \* the proofs of the blocks executed in this batch
  rollup_state,  \* the rollup State: the blocks executed on it, in order
  ex_pending,    \* the verify_blocks call being sent
  ex_retries,    \* failed sends of the pending call
  ex_submitted,  \* the verify_blocks calls the contract has taken
  applied,       \* history: each executed block with the L1 commitment read
  ex_exit        \* history: why run_executor returned

exec_vars ==
  <<ex_pc, ex_events, ex_event, ex_i, ex_proofs, rollup_state, ex_pending,
    ex_retries, ex_submitted, applied, ex_exit>>

\* Another task holding the same Arc<RwLock<State>> as run_executor.
VARIABLES
  ex_observed    \* the rollup state this task saw under its last read lock

reader_vars == <<ex_observed>>

\* ApiState (sequencer api): the lazily initialized consensus state and the
\* requests in progress.
VARIABLES
  api_lazy,      \* the Lazy cell shared by all clones of the ApiState
  api_calls      \* per caller: the request it makes and how far it has got

api_vars == <<api_lazy, api_calls>>

vars == <<payload_vars, exec_vars, reader_vars, api_vars>>

\* ---------------------------------------------------------------- executor

OkOf(v) == [kind |-> "Ok", val |-> v]

Err == [kind |-> "Err"]

\* The U256 values the HotShot contract can hold for a block number: two that
\* are commitments and one that does not deserialize to a commitment.
U256s == {1, 2, 3}

\* sequencer_utils::u256_to_commitment
u256_to_commitment(u) == IF u \in {1, 2} THEN OkOf([commit |-> u]) ELSE Err

\* sequencer_utils::commitment_to_u256
commitment_to_u256(c) == [u256 |-> c]

\* The blocks the query service can answer with, told apart by their content.
Blocks == {[content |-> 1], [content |-> 2]}

\* block.block().commit()
BlockCommit(block) == [commit |-> block.content]

\* block.hash()
BlockHash(block) == [hash |-> block.content]

\* hotshot_contract.commitments(first_block + i).call()
ContractReads == {Err} \cup {OkOf(u) : u \in U256s}

\* hotshot.get("block/{first_block + i}").send()
QueryResults == {Err} \cup {OkOf(b) : b \in Blocks}

\* state.commit(): the state is kept as the blocks executed on it.
StateCommit(state) == [state |-> state]

\* Proof::generate
Proof_generate(block, state_commitment, previous_state_commitment) ==
  [block |-> BlockHash(block),
   old_state |-> previous_state_commitment,
   new_state |-> state_commitment]

\* The aggregate made from the last proof alone.
BatchProof_generate_LastOnly(proofs) ==
  IF proofs = <<>> THEN Panic
  ELSE OkOf([first_block |-> proofs[Len(proofs)].block,
             last_block |-> proofs[Len(proofs)].block,
             old_state |-> proofs[Len(proofs)].old_state,
             new_state |-> proofs[Len(proofs)].new_state])

\* BatchProof::generate: proofs[0] of an empty slice panics.
BatchProof_generate(proofs) ==
  IF proofs = <<>> THEN Panic
  ELSE OkOf([first_block |-> proofs[1].block,
             last_block |-> proofs[Len(proofs)].block,
             old_state |-> proofs[1].old_state,
             new_state |-> proofs[Len(proofs)].new_state])

\* State::execute_block: the block applied to the state, and its proof.
execute_block(state, block) ==
  LET after == Append(state, block)
  IN  [state |-> after,
       proof |-> Proof_generate(block, StateCommit(after), StateCommit(state))]

\* The comparison left out: every fetched block is taken.
CommitmentMatches_Always(block, block_commitment) == TRUE

\* block.block().commit() != block_commitment, negated
CommitmentMatches(block, block_commitment) ==
  BlockCommit(block) = block_commitment

ExecutorInit ==
  /\ ex_pc = "connect"
  /\ ex_events = 0
  /\ ex_event = None
  /\ ex_i = 0
  /\ ex_proofs = <<>>
  /\ rollup_state = <<>>
  /\ ex_pending = None
  /\ ex_retries = 0
  /\ ex_submitted = <<>>
  /\ applied = <<>>
  /\ ex_exit = None

\* --------------------------------------------------------------- ApiState

\* The tasks that call into the API at the same time.
Callers == 1..NumCallers

\* What the initialization future can resolve to: the ConsensusState made
\* from the SequencerContext, whichever it is.
ConsensusStates == {"ctx_a", "ctx_b"}

\* The accessors and endpoints of ApiState that use the consensus state.
Accessors ==
  {"consensus", "node_state", "state_signer", "event_streamer",
   "hotshot_config", "submit", "event_stream", "get_account", "get_frontier"}

\* CatchupDataSource
CatchupOps == {"get_account", "get_frontier"}

\* The requests a caller can make: on the ApiState, or on the StorageState
\* (ExtensibleDataSource) that wraps it.
Requests ==
  {[layer |-> "ApiState", op |-> o] : o \in Accessors}
  \cup {[layer |-> "StorageState", op |-> o] : o \in CatchupOps \cup {"submit"}}

OkFrom(src) == [kind |-> "Ok", from |-> src]

ErrFrom(src) == [kind |-> "Err", from |-> src]

\* What an accessor of ApiState answers once it holds the ConsensusState.
\* submit, get_account and get_frontier can fail (`?`); get_frontier computes
\* tree.num_leaves() - 1, which for an empty tree panics with overflow checks
\* and without them wraps to a position whose lookup fails.
ApiResults(o) ==
  IF o = "get_frontier" THEN {OkFrom("memory"), ErrFrom("memory"), Panic}
  ELSE IF o \in {"get_account", "submit"}
  THEN {OkFrom("memory"), ErrFrom("memory")}
  ELSE {OkFrom("memory")}

\* self.inner().get_account / get_frontier: the storage layer D.
StorageResults == {OkFrom("storage"), ErrFrom("storage")}

\* The stream event_stream() returns, before it was ever polled.
EventStream == [kind |-> "Stream"]

\* `?` in place of the match: an in-memory error is returned to the caller.
AfterMemory_Propagate(mem) == [pc |-> "returned", ret |-> Some(mem)]

\* match self.as_ref().get_..(..).await { Ok(x) => return Ok(x), Err(err) =>
\* log } of StorageState: what follows the in-memory lookup.
AfterMemory(mem) ==
  IF mem.kind = "Ok" THEN [pc |-> "returned", ret |-> Some(mem)]
  ELSE IF mem.kind = "Panic" THEN [pc |-> "panicked", ret |-> None]
  ELSE [pc |-> "storage", ret |-> None]

\* Lazy::from_future(init.boxed()): the future is stored, not polled.
Lazy_from_future == [state |-> "uninit", started |-> 0, value |-> None]

\* Every get() before the value is there starts the future afresh.
Lazy_get_Restart(lazy) ==
  IF lazy.state # "ready"
  THEN [lazy EXCEPT !.state = "running", !.started = @ + 1]
  ELSE lazy

\* Lazy::get(): the first caller starts polling the future, later ones wait
\* for the same run of it.
Lazy_get(lazy) ==
  IF lazy.state = "uninit"
  THEN [lazy EXCEPT !.state = "running", !.started = @ + 1]
  ELSE lazy

IdleCall ==
  [pc |-> "idle", layer |-> "none", op |-> "none", seen |-> None,
   mem |-> None, sto |-> None, ret |-> None]

ApiInit ==
  /\ api_lazy = None
  /\ api_calls = [c \in Callers |-> IdleCall]

inputs == <<txs, max_block_size, usize_bits, in_bytes, in_table>>

\* Nothing constructed yet.
Init ==
  /\ txs = <<>>
  /\ max_block_size = U64(0, DefaultMaxBlockSize)
  /\ usize_bits = 64
  /\ in_bytes = <<>>
  /\ in_table = <<>>
  /\ origin = "none"
  /\ ret = None
  /\ prev_ret = None
  /\ runs = 0
  /\ self = None
  /\ iter = None
  /\ yielded = <<>>
  /\ panicked = FALSE
  /\ commitment = None
  /\ answer = None
  /\ ExecutorInit
  /\ ex_observed = None
  /\ ApiInit

\* BlockPayload::from_transactions(txs, _, instance_state): a first run on a
\* fresh input, or another run on the same input.
FromTransactions ==
  /\ origin \in {"none", "from_transactions"}
  /\ runs < MaxRuns
  /\ iter = None /\ commitment = None /\ answer = None
  /\ \E t \in IF origin = "none" THEN TxSeqs ELSE {txs},
        inst \in IF origin = "none" THEN Instances
                 ELSE {<<max_block_size, usize_bits>>} :
       /\ txs' = t
       /\ max_block_size' = inst[1]
       /\ usize_bits' = inst[2]
       /\ \E r \in from_transactions_sync(t, inst[1], inst[2]) :
            /\ ret' = r
            /\ self' = IF r.kind = "Ok" THEN Some(r.payload) ELSE None
  /\ prev_ret' = ret
  /\ runs' = runs + 1
  /\ origin' = "from_transactions"
  /\ UNCHANGED <<in_bytes, in_table, iter, yielded, panicked, commitment,
                 answer>>
  /\ UNCHANGED <<exec_vars, reader_vars, api_vars>>

\* BlockPayload::from_bytes(block_payload_bytes, ns_table)
FromBytes ==
  /\ origin = "none"
  /\ \E b \in RawPayloads, t \in RawNsTables :
       /\ in_bytes' = b
       /\ in_table' = t
       /\ self' = Some(from_bytes(b, t))
  /\ origin' = "from_bytes"
  /\ UNCHANGED <<txs, max_block_size, usize_bits, ret, prev_ret, runs, iter,
                 yielded, panicked, commitment, answer>>
  /\ UNCHANGED <<exec_vars, reader_vars, api_vars>>

\* BlockPayload::empty()
Empty ==
  /\ origin = "none"
  /\ \E bits \in UsizeBits :
       /\ usize_bits' = bits
       /\ \E r \in empty(bits) :
            IF r.kind = "Panic"
            THEN panicked' = TRUE /\ UNCHANGED <<ret, self>>
            ELSE panicked' = FALSE /\ ret' = r /\ self' = Some(r.payload)
  /\ origin' = "empty"
  /\ UNCHANGED <<txs, max_block_size, in_bytes, in_table, prev_ret, runs, iter,
                 yielded, commitment, answer>>
  /\ UNCHANGED <<exec_vars, reader_vars, api_vars>>

\* self.enumerate(meta) / self.transactions(meta) / self.iter(meta).  A payload
\* is inspected after the first run of from_transactions; the results of
\* further runs are only compared with it.
Enumerate ==
  /\ self.kind = "Some" /\ iter = None /\ commitment = None /\ ~panicked
  /\ runs <= 1
  /\ iter' = Some(Iter_new)
  /\ UNCHANGED <<inputs, origin, ret, prev_ret, runs, self, yielded, panicked,
                 commitment, answer>>
  /\ UNCHANGED <<exec_vars, reader_vars, api_vars>>

\* One next() of the enumerate() iterator: the next index and its transaction.
EnumerateNext ==
  /\ iter.kind = "Some" /\ ~panicked
  /\ LET n == Iter_next(self.val, iter.val)
         t == transaction(self.val, n.item.val)
     IN  IF n.item.kind = "None"
         THEN iter' = [kind |-> "Done"] /\ UNCHANGED <<yielded, panicked>>
         ELSE IF n.item.kind = "Panic" \/ t.kind # "Some"
         THEN panicked' = TRUE /\ UNCHANGED <<iter, yielded>>
         ELSE /\ iter' = Some(n.it)
              /\ yielded' = Append(yielded, [index |-> n.item.val, tx |-> t.val])
              /\ UNCHANGED panicked
  /\ UNCHANGED <<inputs, origin, ret, prev_ret, runs, self, commitment, answer>>
  /\ UNCHANGED <<exec_vars, reader_vars, api_vars>>

\* self.builder_commitment(metadata)
BuilderCommitment ==
  /\ self.kind = "Some" /\ iter = None /\ commitment = None /\ ~panicked
  /\ runs <= 1
  /\ \E metadata \in {self.val.ns_table} \cup OtherMetadata :
       commitment' = Some([digest |-> builder_commitment(self.val, metadata),
                           metadata |-> metadata])
  /\ UNCHANGED <<inputs, origin, ret, prev_ret, runs, self, iter, yielded,
                 panicked, answer>>
  /\ UNCHANGED <<exec_vars, reader_vars, api_vars>>

\* self.transaction(&index)
TransactionLookup ==
  /\ self.kind = "Some" /\ ~panicked /\ runs <= 1
  /\ \E index \in Indices :
       answer' = [kind |-> "transaction", arg |-> index,
                  val |-> transaction(self.val, index)]
  /\ UNCHANGED <<inputs, origin, ret, prev_ret, runs, self, iter, yielded,
                 panicked, commitment>>
  /\ UNCHANGED <<exec_vars, reader_vars, api_vars>>

\* self.transaction_with_proof(meta, &index)
TransactionWithProof ==
  /\ self.kind = "Some" /\ ~panicked /\ runs <= 1
  /\ \E index \in Indices :
       answer' = [kind |-> "transaction_with_proof", arg |-> index,
                  val |-> transaction_with_proof(self.val, self.val.ns_table,
                                                 index)]
  /\ UNCHANGED <<inputs, origin, ret, prev_ret, runs, self, iter, yielded,
                 panicked, commitment>>
  /\ UNCHANGED <<exec_vars, reader_vars, api_vars>>

\* encode() moving the bytes out of the payload (mem::take).
Reconstruct_Take ==
  /\ self.kind = "Some" /\ ~panicked /\ runs <= 1
  /\ answer' = [kind |-> "from_bytes", arg |-> <<>>,
                val |-> from_bytes(encode(self.val), ns_table(self.val))]
  /\ self' = Some(Payload(<<>>, self.val.ns_table))
  /\ UNCHANGED <<inputs, origin, ret, prev_ret, runs, iter, yielded, panicked,
                 commitment>>
  /\ UNCHANGED <<exec_vars, reader_vars, api_vars>>

\* Payload::from_bytes(&self.encode(), self.ns_table()): the payload after
\* transport.
Reconstruct ==
  /\ self.kind = "Some" /\ ~panicked /\ runs <= 1
  /\ answer' = [kind |-> "from_bytes", arg |-> <<>>,
                val |-> from_bytes(encode(self.val), ns_table(self.val))]
  /\ UNCHANGED <<inputs, origin, ret, prev_ret, runs, self, iter, yielded,
                 panicked, commitment>>
  /\ UNCHANGED <<exec_vars, reader_vars, api_vars>>

\* self.txn_count(), which is self.len(&self.ns_table)
TxnCount ==
  /\ self.kind = "Some" /\ ~panicked /\ runs <= 1
  /\ answer' = [kind |-> "txn_count", arg |-> <<>>, val |-> txn_count(self.val)]
  /\ UNCHANGED <<inputs, origin, ret, prev_ret, runs, self, iter, yielded,
                 panicked, commitment>>
  /\ UNCHANGED <<exec_vars, reader_vars, api_vars>>

Next ==
  \/ FromTransactions
  \/ FromBytes
  \/ Empty
  \/ Enumerate
  \/ EnumerateNext
  \/ BuilderCommitment

Spec == Init /\ [][Next]_vars

\* from_transactions alone, on every input.
NextBuild == FromTransactions

SpecBuild == Init /\ [][NextBuild]_vars

\* One lookup on a payload, on any payload the constructors make; proofs are
\* asked of payloads built by from_transactions.
NextQuery ==
  \/ FromTransactions
  \/ FromBytes
  \/ Empty
  \/ answer = None /\ TransactionLookup
  \/ answer = None /\ origin = "from_transactions" /\ TransactionWithProof
  \/ answer = None /\ Reconstruct
  \/ answer = None /\ TxnCount

SpecQuery == Init /\ [][NextQuery]_vars

\* The inputs of a few payloads, well-formed and not, of every constructor.
SharedInputs ==
  /\ txs \in {<<>>, <<Hello>>,
               <<Transaction(NamespaceId(9), <<97>>),
                 Transaction(NamespaceId(3), <<98, 98>>),
                 Transaction(NamespaceId(9), <<>>)>>}
  /\ max_block_size.lo \in {0, 50, DefaultMaxBlockSize}
  /\ usize_bits = 64
  /\ in_bytes \in {<<>>, Word(2) \o Word(1) \o Word(IntCap) \o <<104>>}
  /\ in_table \in {<<>>, Word(1) \o NamespaceId(0) \o Word(10000),
                    Word(IntCap) \o NamespaceId(0) \o Word(8)
                      \o NamespaceId(7) \o Word(10000)}

\* Every operation on a payload, called in any order and any number of times
\* once the payload is made.
NextShared ==
  \/ FromTransactions /\ SharedInputs'
  \/ FromBytes /\ SharedInputs'
  \/ Empty
  \/ Enumerate
  \/ EnumerateNext
  \/ BuilderCommitment
  \/ TransactionLookup
  \/ TransactionWithProof
  \/ Reconstruct
  \/ TxnCount

SpecShared == Init /\ [][NextShared]_vars

\* ------------------------------------------------------- executor actions

\* connect_l1, the websocket connection and the subscription to the NewBlocks
\* events: each can fail, and then run_executor returns.
Connect ==
  /\ ex_pc = "connect"
  /\ \E connected \in BOOLEAN :
       IF connected
       THEN ex_pc' = "stream" /\ UNCHANGED ex_exit
       ELSE /\ ex_pc' = "exited"
            /\ ex_exit' = Some([cause |-> "connect", event |-> ex_events,
                             number |-> 0])
  /\ UNCHANGED <<ex_events, ex_event, ex_i, ex_proofs, rollup_state,
                 ex_pending, ex_retries, ex_submitted, applied>>
  /\ UNCHANGED <<payload_vars, reader_vars, api_vars>>

\* stream.next() gives Ok(NewBlocks(first_block_number, num_blocks)): a new
\* batch starts with no proofs.
NewBlocks ==
  /\ ex_pc = "stream" /\ ex_events < MaxEvents
  /\ \E first_block \in 0..MaxFirstBlock, num_blocks \in 0..MaxBatch :
       ex_event' = Some([first_block |-> first_block, num_blocks |-> num_blocks])
  /\ ex_events' = ex_events + 1
  /\ ex_i' = 0
  /\ ex_proofs' = <<>>
  /\ ex_pc' = "batch"
  /\ UNCHANGED <<rollup_state, ex_pending, ex_retries, ex_submitted, applied,
                 ex_exit>>
  /\ UNCHANGED <<payload_vars, reader_vars, api_vars>>

\* `return` in place of `continue`: an error item ends run_executor.
StreamError_Return ==
  /\ ex_pc = "stream" /\ ex_events < MaxEvents
  /\ ex_events' = ex_events + 1
  /\ ex_pc' = "exited"
  /\ ex_exit' = Some([cause |-> "stream_error", event |-> ex_events + 1,
                        number |-> 0])
  /\ UNCHANGED <<ex_event, ex_i, ex_proofs, rollup_state, ex_pending,
                 ex_retries, ex_submitted, applied>>
  /\ UNCHANGED <<payload_vars, reader_vars, api_vars>>

\* stream.next() gives Err: logged, and the loop goes on to the next item.
StreamError ==
  /\ ex_pc = "stream" /\ ex_events < MaxEvents
  /\ ex_events' = ex_events + 1
  /\ UNCHANGED <<ex_pc, ex_event, ex_i, ex_proofs, rollup_state, ex_pending,
                 ex_retries, ex_submitted, applied, ex_exit>>
  /\ UNCHANGED <<payload_vars, reader_vars, api_vars>>

\* stream.next() gives None: the while loop ends and run_executor returns.
StreamEnd ==
  /\ ex_pc = "stream"
  /\ ex_pc' = "exited"
  /\ ex_exit' = Some([cause |-> "stream_end", event |-> ex_events,
                        number |-> 0])
  /\ UNCHANGED <<ex_events, ex_event, ex_i, ex_proofs, rollup_state,
                 ex_pending, ex_retries, ex_submitted, applied>>
  /\ UNCHANGED <<payload_vars, reader_vars, api_vars>>

\* One pass of `for i in 0..num_blocks`: read the commitment from the HotShot
\* contract, fetch the block, compare, execute; any failure returns.
ExecuteBlock ==
  /\ ex_pc = "batch" /\ ex_i < ex_event.val.num_blocks
  /\ \E read \in ContractReads, fetched \in QueryResults :
       LET number == ex_event.val.first_block + ex_i
           block_commitment ==
             IF read.kind = "Ok" THEN u256_to_commitment(read.val) ELSE Err
           cause ==
             IF read.kind = "Err" THEN "read"
             ELSE IF block_commitment.kind = "Err" THEN "deserialize"
             ELSE IF fetched.kind = "Err" THEN "fetch"
             ELSE IF ~CommitmentMatches(fetched.val, block_commitment.val)
             THEN "mismatch"
             ELSE "none"
           done == execute_block(rollup_state, fetched.val)
       IN  IF cause # "none"
           THEN /\ ex_pc' = "exited"
                /\ ex_exit' = Some([cause |-> cause, event |-> ex_events,
                                    number |-> number])
                /\ UNCHANGED <<ex_i, ex_proofs, rollup_state, applied>>
           ELSE /\ rollup_state' = done.state
                /\ ex_proofs' = Append(ex_proofs, done.proof)
                /\ ex_i' = ex_i + 1
                /\ applied' = Append(applied,
                                     [event |-> ex_events,
                                      first_block |-> ex_event.val.first_block,
                                      num_blocks |-> ex_event.val.num_blocks,
                                      number |-> number,
                                      block |-> fetched.val,
                                      l1 |-> block_commitment.val])
                /\ UNCHANGED <<ex_pc, ex_exit>>
  /\ UNCHANGED <<ex_events, ex_event, ex_pending, ex_retries, ex_submitted>>
  /\ UNCHANGED <<payload_vars, reader_vars, api_vars>>

\* After the loop: the aggregate proof and the state commitment of the call
\* verify_blocks(num_blocks, state_comm, proof).
GenerateBatchProof ==
  /\ ex_pc = "batch" /\ ex_i >= ex_event.val.num_blocks
  /\ LET proof == BatchProof_generate(ex_proofs)
     IN  IF proof.kind = "Panic"
         THEN ex_pc' = "panicked" /\ UNCHANGED ex_pending
         ELSE /\ ex_pc' = "sending"
              /\ ex_pending' =
                   Some([event |-> ex_events,
                         num_blocks |-> ex_event.val.num_blocks,
                         state_comm |->
                           commitment_to_u256(StateCommit(rollup_state)),
                         proof |-> proof.val])
  /\ UNCHANGED <<ex_events, ex_event, ex_i, ex_proofs, rollup_state,
                 ex_retries, ex_submitted, applied, ex_exit>>
  /\ UNCHANGED <<payload_vars, reader_vars, api_vars>>

\* contract_send(...) is Some: the contract took the call; on to the next
\* event.
SendProof ==
  /\ ex_pc = "sending"
  /\ ex_submitted' = Append(ex_submitted, ex_pending.val)
  /\ ex_pending' = None
  /\ ex_retries' = 0
  /\ ex_pc' = "stream"
  /\ UNCHANGED <<ex_events, ex_event, ex_i, ex_proofs, rollup_state, applied,
                 ex_exit>>
  /\ UNCHANGED <<payload_vars, reader_vars, api_vars>>

\* A failed send given up: the loop over the stream goes on without the proof.
SendFailed_GiveUp ==
  /\ ex_pc = "sending" /\ ex_retries < MaxSendRetries
  /\ ex_pending' = None
  /\ ex_pc' = "stream"
  /\ UNCHANGED <<ex_events, ex_event, ex_i, ex_proofs, rollup_state,
                 ex_retries, ex_submitted, applied, ex_exit>>
  /\ UNCHANGED <<payload_vars, reader_vars, api_vars>>

\* contract_send(...) is None: warn, sleep a second, send again.
SendFailed ==
  /\ ex_pc = "sending" /\ ex_retries < MaxSendRetries
  /\ ex_retries' = ex_retries + 1
  /\ UNCHANGED <<ex_pc, ex_events, ex_event, ex_i, ex_proofs, rollup_state,
                 ex_pending, ex_submitted, applied, ex_exit>>
  /\ UNCHANGED <<payload_vars, reader_vars, api_vars>>

NextExecutor ==
  \/ Connect
  \/ NewBlocks
  \/ StreamError
  \/ StreamEnd
  \/ ExecuteBlock
  \/ GenerateBatchProof
  \/ SendProof
  \/ SendFailed

SpecExecutor == Init /\ [][NextExecutor]_vars

\* The executor task is scheduled until it returns, and contract_send does not
\* fail for ever: a proof that is ready is made, a pending call is taken.
SpecExecutorFair ==
  /\ SpecExecutor
  /\ WF_vars(GenerateBatchProof)
  /\ WF_vars(SendProof)

\* --------------------------------------------------------- reader of State

\* The guard of state.write() lives from its declaration in the body of the
\* while loop to the end of that pass of the body, or to the return or panic
\* that leaves the function: the batch and the sending of its proof.
WriteLocked == ex_pc \in {"batch", "sending"}

\* state.read().await in another task: waits while the writer holds the lock.
ReadState ==
  /\ ~WriteLocked
  /\ ex_observed' = Some(rollup_state)
  /\ UNCHANGED <<payload_vars, exec_vars, api_vars>>

NextVisibility ==
  \/ NextExecutor
  \/ ReadState

SpecVisibility == Init /\ [][NextVisibility]_vars

\* -------------------------------------------------------- ApiState actions

\* ApiState::new(init): returns at once, with the future stored in the cell.
ApiNew ==
  /\ api_lazy = None
  /\ api_lazy' = Some(Lazy_from_future)
  /\ UNCHANGED <<payload_vars, exec_vars, reader_vars, api_calls>>

\* A caller makes a request.  event_stream is not async: it wraps the await
\* of the consensus state in a stream (flatten_stream) and returns that stream
\* unpolled.  In every other request the first await is
\* self.consensus.as_ref().get().
ApiCall ==
  /\ api_lazy.kind = "Some"
  /\ \E c \in Callers, r \in Requests :
       /\ api_calls[c].pc = "idle"
       /\ IF r.op = "event_stream"
          THEN /\ api_calls' =
                    [api_calls EXCEPT
                       ![c] = [IdleCall EXCEPT !.pc = "stream",
                                               !.layer = r.layer,
                                               !.op = r.op,
                                               !.ret = Some(EventStream)]]
               /\ UNCHANGED api_lazy
          ELSE /\ api_calls' =
                    [api_calls EXCEPT
                       ![c] = [IdleCall EXCEPT !.pc = "get",
                                               !.layer = r.layer,
                                               !.op = r.op]]
               /\ api_lazy' = Some(Lazy_get(api_lazy.val))
  /\ UNCHANGED <<payload_vars, exec_vars, reader_vars>>

\* The first poll of the stream event_stream returned: state.consensus().await
PollEventStream ==
  /\ api_lazy.kind = "Some"
  /\ \E c \in Callers :
       /\ api_calls[c].pc = "stream"
       /\ api_calls' = [api_calls EXCEPT ![c].pc = "get"]
  /\ api_lazy' = Some(Lazy_get(api_lazy.val))
  /\ UNCHANGED <<payload_vars, exec_vars, reader_vars>>

\* The initialization future completes with the ConsensusState.
InitComplete ==
  /\ api_lazy.kind = "Some" /\ api_lazy.val.state = "running"
  /\ \E cs \in ConsensusStates :
       api_lazy' = Some([api_lazy.val EXCEPT !.state = "ready",
                                             !.value = Some(cs)])
  /\ UNCHANGED <<payload_vars, exec_vars, reader_vars, api_calls>>

\* get() returns the value of the cell and the accessor of ApiState answers;
\* a catchup request on the StorageState then returns or goes on to storage.
ApiAnswer ==
  /\ api_lazy.kind = "Some" /\ api_lazy.val.state = "ready"
  /\ \E c \in Callers :
       /\ api_calls[c].pc = "get"
       /\ \E res \in ApiResults(api_calls[c].op) :
            LET call == [api_calls[c] EXCEPT !.seen = api_lazy.val.value]
                next == AfterMemory(res)
            IN  api_calls' =
                  [api_calls EXCEPT
                     ![c] = IF call.layer = "StorageState"
                               /\ call.op \in CatchupOps
                            THEN [call EXCEPT !.mem = Some(res),
                                              !.pc = next.pc,
                                              !.ret = next.ret]
                            ELSE IF res.kind = "Panic"
                            THEN [call EXCEPT !.pc = "panicked"]
                            ELSE [call EXCEPT !.pc = "returned",
                                              !.ret = Some(res)]]
  /\ UNCHANGED <<payload_vars, exec_vars, reader_vars, api_lazy>>

\* self.inner().get_account / get_frontier: the storage answer is returned.
StorageLookup ==
  /\ \E c \in Callers, res \in StorageResults :
       /\ api_calls[c].pc = "storage"
       /\ api_calls' = [api_calls EXCEPT ![c].sto = Some(res),
                                         ![c].ret = Some(res),
                                         ![c].pc = "returned"]
  /\ UNCHANGED <<payload_vars, exec_vars, reader_vars, api_lazy>>

NextApi ==
  \/ ApiNew
  \/ ApiCall
  \/ PollEventStream
  \/ InitComplete
  \/ ApiAnswer
  \/ StorageLookup

SpecApi == Init /\ [][NextApi]_vars

\* ------------------------------------------------- vocabulary of the claims

\* The transactions the iterator has yielded, indices dropped.
Decoded == [i \in 1..Len(yielded) |-> yielded[i].tx]

\* The transactions of one namespace, in order.
OfNs(ts, ns) == SelectSeq(ts, LAMBDA t : t.namespace = ns)

NamespacesOf(ts) == {ts[i].namespace : i \in 1..Len(ts)}

RECURSIVE SumPayloadLens(_)
SumPayloadLens(ts) ==
  IF ts = <<>> THEN 0 ELSE Len(Head(ts).payload) + W + SumPayloadLens(Tail(ts))

\* The encoded size of a transaction sequence: W for the namespace count,
\* len(payload) + W per transaction, (8 + W) + W per distinct namespace.
EncodedSize(ts) ==
  W + SumPayloadLens(ts) + Cardinality(NamespacesOf(ts)) * ((8 + W) + W)

\* n <= max for a u64 max.
FitsIn(n, max) == max.hi > 0 \/ n <= max.lo

\* Length of the longest prefix of ts whose encoded size fits in max.
LongestFittingPrefix(ts, max) ==
  LET fit == {k \in 1..Len(ts) : FitsIn(EncodedSize(SubSeq(ts, 1, k)), max)}
  IN  IF fit = {} THEN 0 ELSE CHOOSE k \in fit : \A j \in fit : j <= k

\* Namespace ids in order of first appearance.
RECURSIVE FirstAppearance(_)
FirstAppearance(ts) ==
  IF ts = <<>> THEN <<>>
  ELSE LET front == FirstAppearance(SubSeq(ts, 1, Len(ts) - 1))
           ns == ts[Len(ts)].namespace
       IN  IF \E i \in 1..Len(front) : front[i] = ns
           THEN front ELSE Append(front, ns)

\* The namespace ids a table lists, in table order.
TableIds(t) ==
  [i \in 1..num_namespaces(t) |-> read_ns_id_unchecked(t, i - 1)]

\* The byte range in ns_payloads of the transaction at an index.
TxBlockRange(p, index) ==
  LET r == ns_range(p.ns_table, index.ns, byte_len(p))
      t == tx_range(Slice(p.raw_payload, r[1], r[2]), index.tx)
  IN  <<r[1] + t[1], r[1] + t[2]>>

\* Lexicographic order of indices.
IndexLess(a, b) == a.ns < b.ns \/ (a.ns = b.ns /\ a.tx < b.tx)

\* n as 8 little-endian bytes, for n below 2^24.
Le64(n) ==
  <<n % 256, (n \div 256) % 256, (n \div 65536) % 256, 0, 0, 0, 0, 0>>

Built == origin = "from_transactions" /\ ret.kind = "Ok"

IterDone == iter.kind = "Done"

\* Per namespace, ts and us hold the same transactions in the same order.
SamePerNamespace(ts, us) ==
  /\ Len(ts) = Len(us)
  /\ \A ns \in NamespacesOf(ts) \cup NamespacesOf(us) : OfNs(ts, ns) = OfNs(us, ns)

\* ------------------------------------------------------------------ claims

\* C1: when the whole input fits in max_block_size, building a payload and
\* iterating it to the end yields exactly the input transactions, per
\* namespace in input order.
C1_RoundTrip ==
  (Built /\ IterDone /\ FitsIn(EncodedSize(txs), max_block_size))
    => /\ ~panicked
       /\ SamePerNamespace(Decoded, txs)

C1_Witness ==
  /\ Built /\ IterDone /\ FitsIn(EncodedSize(txs), max_block_size)
  /\ Len(txs) = 3 /\ Len(yielded) = 3
  /\ txs[1].namespace = txs[3].namespace
  /\ txs[1].namespace # txs[2].namespace
  /\ txs[1].payload # txs[3].payload

\* C2: the NsTable of a built payload lists the namespaces in the order in
\* which each id first appears among the accepted input transactions.
C2_FirstAppearanceOrder ==
  Built =>
    TableIds(ret.payload.ns_table)
      = FirstAppearance(SubSeq(txs, 1, LongestFittingPrefix(txs, max_block_size)))

\* C3: two runs of from_transactions on the same input and the same
\* max_block_size return identical ns_payloads and an identical NsTable.
C3_Determinism ==
  (origin = "from_transactions" /\ runs = 2
   /\ ret.kind = "Ok" /\ prev_ret.kind = "Ok")
    => /\ ret.payload.raw_payload = prev_ret.payload.raw_payload
       /\ ret.payload.ns_table = prev_ret.payload.ns_table

\* C4 as claimed: for every input and every max_block_size, also one below
\* the fixed overhead W, len(ns_payloads) + len(encode(ns_table)) is at most
\* max_block_size.
C4_ByteBudgetAnyMax ==
  Built =>
    FitsIn(Len(ret.payload.raw_payload) + Len(ret.payload.ns_table),
           max_block_size)

\* C4 as amended: for every input and every max_block_size of at least W
\* (the size of the table of the empty block), len(ns_payloads) +
\* len(encode(ns_table)) is at most max_block_size.
C4_ByteBudget ==
  (Built /\ FitsIn(W, max_block_size)) =>
    FitsIn(Len(ret.payload.raw_payload) + Len(ret.payload.ns_table),
           max_block_size)

\* A built payload that fills its budget to the last byte, after a truncation.
C4_Witness ==
  /\ Built /\ max_block_size.hi = 0
  /\ Len(ret.payload.raw_payload) + Len(ret.payload.ns_table) = max_block_size.lo
  /\ EncodedSize(txs) > max_block_size.lo

\* C5: the transactions in the built payload are those of the longest prefix
\* of the input whose encoded size fits in max_block_size; the first
\* transaction that does not fit and all later ones are dropped.
C5_StopAtFirstOverflow ==
  (Built /\ IterDone) =>
    SamePerNamespace(
      Decoded, SubSeq(txs, 1, LongestFittingPrefix(txs, max_block_size)))

\* A dropped transaction followed by one that would have fit in its place.
C5_Witness ==
  /\ Built /\ IterDone /\ Len(txs) = 3 /\ Len(yielded) = 1
  /\ FitsIn(EncodedSize(<<txs[1], txs[3]>>), max_block_size)

\* C6: from_transactions fails exactly when max_block_size does not fit a
\* usize, and then with BlockBuilding; a truncated input is still Ok.
C6_SoleError ==
  origin = "from_transactions" =>
    /\ ret.kind \in {"Ok", "Err"}
    /\ ret.kind = "Err" <=> ~(usize_bits >= 64 \/ max_block_size.hi = 0)
    /\ ret.kind = "Err" => ret.error = "BlockBuilding"
    /\ ~FitsIn(EncodedSize(txs), max_block_size) => ret.kind = "Ok"

C6_Witness ==
  /\ origin = "from_transactions" /\ ret.kind = "Err"
  /\ usize_bits = 32 /\ max_block_size.hi = 1

\* C7: from_transactions on the empty input gives empty ns_payloads and a
\* table of W zero bytes (m = 0); empty() returns exactly this payload, does
\* not fail, and its metadata is the payload's own table.
C7_EmptyBlock ==
  /\ (Built /\ txs = <<>>) =>
       /\ ret.payload.raw_payload = <<>>
       /\ ret.payload.ns_table = <<0, 0, 0, 0>>
       /\ num_namespaces(ret.payload.ns_table) = 0
  /\ origin = "empty" =>
       /\ ~panicked
       /\ ret.kind = "Ok"
       /\ ret.payload = [raw_payload |-> <<>>, ns_table |-> <<0, 0, 0, 0>>]
       /\ ret.metadata = ret.payload.ns_table
       /\ self = Some(ret.payload)

C7_Witness == origin = "empty" /\ ret.kind = "Ok" /\ usize_bits = 32

\* C8: with max_block_size below the fixed overhead W, from_transactions
\* returns Ok with the empty block (m = 0, empty ns_payloads) on every input.
C8_BelowFixedOverhead ==
  (origin = "from_transactions"
   /\ max_block_size.hi = 0 /\ max_block_size.lo < W) =>
    /\ ret.kind = "Ok"
    /\ ret.payload = [raw_payload |-> <<>>, ns_table |-> LE(0, W)]
    /\ ret.metadata = LE(0, W)

C8_Witness ==
  /\ Built /\ max_block_size = U64(0, 0) /\ Len(txs) = 2
  /\ ret.payload.raw_payload = <<>>

\* C9: for any bytes B and any table, from_bytes(B, table) followed by
\* iteration does not panic, yields indices in strictly increasing order out
\* of a finite range (so it ends), and every yielded transaction is the bytes
\* of a range inside [0, len(B)]; B = ff ff ff ff with the table
\* [m = 1, (id 0, end 10000)] yields nothing.
C9_Saturation ==
  origin = "from_bytes" =>
    /\ ~panicked
    /\ \A i \in 1..Len(yielded) :
         LET r == TxBlockRange(self.val, yielded[i].index)
         IN  /\ 0 <= r[1] /\ r[1] <= r[2] /\ r[2] <= Len(in_bytes)
             /\ yielded[i].tx.payload = Slice(in_bytes, r[1], r[2])
             /\ yielded[i].index.ns * (8 + W) + W + (8 + W) <= Len(in_table)
             /\ yielded[i].index.tx * W + W + W <= Len(in_bytes)
    /\ \A i \in 1..(Len(yielded) - 1) :
         IndexLess(yielded[i].index, yielded[i + 1].index)
    /\ (/\ in_bytes = <<255, 255, 255, 255>>
        /\ in_table = <<1, 0, 0, 0>> \o <<0, 0, 0, 0, 0, 0, 0, 0>>
                      \o <<16, 39, 0, 0>>)
         => yielded = <<>>

\* An iteration run to its end over a table whose offset lies beyond the
\* payload, having yielded a non-empty transaction from that namespace.
C9_Witness ==
  /\ origin = "from_bytes" /\ IterDone
  /\ \E i \in 1..Len(yielded) :
       /\ read_ns_offset(in_table, yielded[i].index.ns) > Len(in_bytes)
       /\ yielded[i].tx.payload # <<>>

\* C10: builder_commitment(metadata) is SHA-256 of
\* LE64(len(ns_payloads)) || LE64(len(ns_table)) || LE64(len(metadata))
\* || ns_payloads || ns_table || metadata, in this order, with the payload's
\* own table; with metadata = ns_table the table is hashed twice, and for the
\* empty block the input is LE64(0) || LE64(4) || LE64(4) || 0^4 || 0^4.
C10_BuilderCommitment ==
  commitment.kind = "Some" =>
    LET p == self.val
        meta == commitment.val.metadata
        hashed == commitment.val.digest.sha256
    IN  /\ hashed = Le64(Len(p.raw_payload)) \o Le64(Len(p.ns_table))
                    \o Le64(Len(meta)) \o p.raw_payload \o p.ns_table \o meta
        /\ meta = p.ns_table =>
             SubSeq(hashed, Len(hashed) - 2 * Len(meta) + 1, Len(hashed))
               = meta \o meta
        /\ (p.raw_payload = <<>> /\ p.ns_table = <<0, 0, 0, 0>>
            /\ meta = <<0, 0, 0, 0>>) =>
             hashed = <<0, 0, 0, 0, 0, 0, 0, 0>> \o <<4, 0, 0, 0, 0, 0, 0, 0>>
                      \o <<4, 0, 0, 0, 0, 0, 0, 0>> \o <<0, 0, 0, 0>>
                      \o <<0, 0, 0, 0>>

\* The commitment of a built, non-empty payload with its own table as metadata.
C10_Witness ==
  /\ Built /\ commitment.kind = "Some"
  /\ ret.payload.raw_payload # <<>>
  /\ Len(FirstAppearance(txs)) = 2
  /\ commitment.val.metadata = ret.payload.ns_table

\* C11: the builder commitment depends only on ns_payloads and the payload's
\* own encoded table: whatever metadata argument is passed, the digest is the
\* one obtained with the payload's own table.
C11_CommitmentStability ==
  commitment.kind = "Some" =>
    commitment.val.digest = builder_commitment(self.val, self.val.ns_table)

\* The triple a hashed byte string decodes to: three 8-byte little-endian
\* lengths, then the three parts of these lengths.
ParsePreimage(bytes) ==
  LET a == FromLE(Slice(bytes, 0, 8))
      b == FromLE(Slice(bytes, 8, 16))
      c == FromLE(Slice(bytes, 16, 24))
  IN  IF Len(bytes) < 24 \/ Len(bytes) # 24 + a + b + c
      THEN None
      ELSE Some(<<Slice(bytes, 24, 24 + a),
                  Slice(bytes, 24 + a, 24 + a + b),
                  Slice(bytes, 24 + a + b, 24 + a + b + c)>>)

\* C12: the bytes fed to SHA-256 are an injective encoding of the triple
\* (ns_payloads, encode(ns_table), encode(metadata)): the triple is recovered
\* from them by reading the three length prefixes, so payloads that differ in
\* ns_payloads or in ns_table never feed the same bytes to the hash.
C12_CommitmentSensitivity ==
  commitment.kind = "Some" =>
    ParsePreimage(commitment.val.digest.sha256)
      = Some(<<self.val.raw_payload, self.val.ns_table,
               commitment.val.metadata>>)

\* A commitment whose three parts are non-empty and where an unprefixed
\* concatenation would be ambiguous: the metadata is not the table.
C12_Witness ==
  /\ commitment.kind = "Some"
  /\ self.val.raw_payload # <<>>
  /\ self.val.ns_table # <<>>
  /\ commitment.val.metadata # <<>>
  /\ commitment.val.metadata # self.val.ns_table

\* The transactions from_transactions accepted: the longest fitting prefix.
Accepted == SubSeq(txs, 1, LongestFittingPrefix(txs, max_block_size))

\* The end offset a table stores before entry i (0 before the first).
PrevNsOffset(t, i) == IF i = 0 THEN 0 ELSE read_ns_offset(t, i - 1)

\* C17: in every payload returned by from_transactions the table's namespace
\* ids are pairwise distinct, its end offsets are strictly increasing (each
\* listed namespace payload holds at least one transaction), the number of
\* entries is the number of distinct namespace ids among the accepted
\* transactions, and the last end offset is len(ns_payloads).
C17_NsTableWellFormed ==
  Built =>
    LET p == ret.payload
        t == p.ns_table
        m == ReadUint(t, 0, W)
    IN  /\ Len(t) = W + m * (NS_ID_BYTE_LEN + W)
        /\ m = num_namespaces(t)
        /\ \A i, j \in 0..(m - 1) :
             read_ns_id_unchecked(t, i) = read_ns_id_unchecked(t, j) => i = j
        /\ \A i \in 0..(m - 1) :
             /\ PrevNsOffset(t, i) < read_ns_offset(t, i)
             /\ read_ns_offset(t, i) <= Len(p.raw_payload)
             /\ ReadUint(p.raw_payload, PrevNsOffset(t, i), W) >= 1
        /\ m = Cardinality(NamespacesOf(Accepted))
        /\ PrevNsOffset(t, m) = Len(p.raw_payload)

\* A built payload of two namespaces and three accepted transactions, the
\* first listed namespace holding the larger share of ns_payloads.
C17_Witness ==
  /\ Built /\ num_namespaces(ret.payload.ns_table) = 2
  /\ Len(Accepted) = 3
  /\ read_ns_offset(ret.payload.ns_table, 0) * 2
       > read_ns_offset(ret.payload.ns_table, 1)

\* Sum of the payload lengths of a transaction sequence.
RECURSIVE BodyLen(_)
BodyLen(ts) == IF ts = <<>> THEN 0 ELSE Len(Head(ts).payload) + BodyLen(Tail(ts))

\* C18: for each namespace of a payload returned by from_transactions, the
\* declared count n is the number of accepted transactions of that namespace
\* and W + n*W is at most the namespace payload length; the stored offsets are
\* the cumulative end offsets of the transaction payloads in input order,
\* non-decreasing, within the bodies, the last one at their end, so no read is
\* clamped; [(7, "hello")] gives the 13 bytes n=1, e_1=5, "hello" and the
\* table entry (7, 13).
C18_TxTableWellFormed ==
  /\ Built =>
       LET p == ret.payload
           t == p.ns_table
       IN  \A i \in 0..(num_namespaces(t) - 1) :
             LET nsp == Slice(p.raw_payload, PrevNsOffset(t, i),
                              read_ns_offset(t, i))
                 mine == OfNs(Accepted, read_ns_id_unchecked(t, i))
                 n == ReadUint(nsp, 0, W)
                 bodies == Len(nsp) - (W + n * W)
                 e(j) == ReadUint(nsp, W + (j - 1) * W, W)
             IN  /\ ns_range(t, i, byte_len(p))
                      = <<PrevNsOffset(t, i), read_ns_offset(t, i)>>
                 /\ n = Len(mine)
                 /\ n = num_txs(nsp)
                 /\ W + n * W <= Len(nsp)
                 /\ \A j \in 1..n :
                      /\ e(j) = BodyLen(SubSeq(mine, 1, j))
                      /\ 0 <= e(j) /\ e(j) <= bodies
                      /\ j > 1 => e(j - 1) <= e(j)
                      /\ tx_range(nsp, j - 1)
                           = <<W + n * W + (IF j = 1 THEN 0 ELSE e(j - 1)),
                               W + n * W + e(j)>>
                 /\ n >= 1 /\ e(n) = bodies
  /\ (Built /\ txs = <<Hello>> /\ Accepted = txs) =>
       /\ ret.payload.raw_payload
            = <<1, 0, 0, 0>> \o <<5, 0, 0, 0>> \o <<104, 101, 108, 108, 111>>
       /\ Len(ret.payload.raw_payload) = 13
       /\ ret.payload.ns_table
            = <<1, 0, 0, 0>> \o <<7, 0, 0, 0, 0, 0, 0, 0>> \o <<13, 0, 0, 0>>

\* A built payload in which one namespace took two transactions with
\* non-empty payloads, around a transaction of another namespace.
C18_Witness ==
  /\ Built /\ Len(Accepted) = 3
  /\ txs[1].namespace = txs[3].namespace
  /\ txs[1].namespace # txs[2].namespace
  /\ txs[1].payload # <<>> /\ txs[3].payload # <<>>

\* C16: enumerate() yields its pairs in strictly increasing lexicographic
\* (ns_index, tx_index) order, so each index at most once; every yielded index
\* resolves to Some transaction, the one yielded with it; and transactions()
\* yields the same transactions in the same order, indices dropped.
C16_IterationOrder ==
  iter.kind # "None" =>
    /\ ~panicked
    /\ \A i \in 1..(Len(yielded) - 1) :
         IndexLess(yielded[i].index, yielded[i + 1].index)
    /\ \A i \in 1..Len(yielded) :
         /\ transaction(self.val, yielded[i].index) = Some(yielded[i].tx)
         /\ transactions(yielded)[i] = yielded[i].tx
    /\ Len(transactions(yielded)) = Len(yielded)

\* An iteration run to its end that crossed from one namespace to the next
\* and yielded different transactions.
C16_Witness ==
  /\ IterDone /\ Len(yielded) = 3
  /\ yielded[1].index = [ns |-> 0, tx |-> 0]
  /\ yielded[2].index = [ns |-> 0, tx |-> 1]
  /\ yielded[3].index = [ns |-> 1, tx |-> 0]
  /\ yielded[1].tx # yielded[3].tx

\* The numbers of storage nodes a payload may be dispersed among.
StorageNodes == {10, 100}

\* C13: for every payload built by from_transactions and every valid index,
\* transaction_with_proof returns Some((tx, proof)) with tx the transaction at
\* that index and a proof that verify accepts against the commitment and
\* common data of the payload's dispersal, and rejects for tampered
\* transaction bytes or a tampered index.
C13_ProofSoundness ==
  (/\ Built /\ answer.kind = "transaction_with_proof"
   /\ transaction(self.val, answer.arg).kind = "Some") =>
    /\ answer.val.kind = "Some"
    /\ answer.val.val.tx = transaction(self.val, answer.arg).val
    /\ \A n \in StorageNodes :
         LET d == disperse(vid_scheme(n), encode(self.val))
             t == ns_table(self.val)
             tx == answer.val.val.tx
             proof == answer.val.val.proof
         IN  /\ TxProof_verify(proof, t, tx, d.commit, d.common)
             /\ ~TxProof_verify(
                   proof, t, Transaction(tx.namespace, Append(tx.payload, 0)),
                   d.commit, d.common)
             /\ ~TxProof_verify([proof EXCEPT !.tx_index = @ + 1], t, tx,
                                d.commit, d.common)

\* C14: from_bytes validates nothing: for every byte string and every table it
\* returns a payload whose encode() is the bytes and whose ns_table() is the
\* table; so from_bytes(p.encode(), p.ns_table()) = p for every payload p.
C14_FromBytesNoValidation ==
  /\ origin = "from_bytes" =>
       /\ self.kind = "Some"
       /\ encode(self.val) = in_bytes
       /\ ns_table(self.val) = in_table
  /\ answer.kind = "from_bytes" => answer.val = self.val

\* A payload made from bytes and a table longer than its declared entries,
\* made again from its own encode() and ns_table().
C14_Witness ==
  /\ origin = "from_bytes" /\ answer.kind = "from_bytes"
  /\ in_bytes # <<>>
  /\ Len(in_table) > W + ReadUint(in_table, 0, W) * (NS_ID_BYTE_LEN + W)

\* C15: for any payload and any index, transaction(index) never panics; it is
\* None exactly when the namespace index is not in the table or the tx index
\* is at least num_txs of that namespace, and otherwise Some transaction with
\* the namespace id of that table entry and the bytes of the clamped tx range.
C15_LookupTotal ==
  answer.kind = "transaction" =>
    LET p == self.val
        index == answer.arg
        t == p.ns_table
        nsr == ns_range(t, index.ns, Len(p.raw_payload))
        nsp == Slice(p.raw_payload, nsr[1], nsr[2])
        txr == TxBlockRange(p, index)
    IN  /\ answer.val.kind \in {"None", "Some"}
        /\ answer.val.kind = "None"
             <=> (index.ns >= num_namespaces(t) \/ index.tx >= num_txs(nsp))
        /\ answer.val.kind = "Some" =>
             /\ 0 <= txr[1] /\ txr[1] <= txr[2] /\ txr[2] <= Len(p.raw_payload)
             /\ answer.val.val
                  = Transaction(read_ns_id_unchecked(t, index.ns),
                                Slice(p.raw_payload, txr[1], txr[2]))

\* A lookup that found a non-empty transaction in a namespace whose table
\* offset lies beyond the end of the payload.
C15_Witness ==
  /\ origin = "from_bytes" /\ answer.kind = "transaction"
  /\ answer.val.kind = "Some"
  /\ answer.val.val.payload # <<>>
  /\ read_ns_offset(in_table, answer.arg.ns) > Len(in_bytes)

\* What the queries without a proof answer on payload p.
Queries(p) ==
  [ns_table |-> ns_table(p),
   encode |-> encode(p),
   txn_count |-> txn_count(p),
   transaction |-> [i \in Indices |-> transaction(p, i)],
   builder_commitment |-> builder_commitment(p, ns_table(p))]

\* C19: once a payload is made, no call of its operations changes its
\* ns_payloads bytes or its table; every query answers after the call what it
\* answered before it, and a query asked again after other operations gets
\* the answer it got before.
C19_Immutability ==
  [][(self.kind = "Some" /\ runs' = runs) =>
       /\ self' = self
       /\ Queries(self'.val) = Queries(self.val)
       /\ (/\ answer.kind # "None"
           /\ answer'.kind = answer.kind
           /\ answer'.arg = answer.arg) => answer'.val = answer.val]_vars

\* A payload of two namespaces that was iterated to its end and looked up by
\* index as well.
C19_Witness ==
  /\ Built /\ IterDone /\ Len(yielded) = 3
  /\ answer.kind = "transaction" /\ answer.val.kind = "Some"

\* The blocks applied for event e, in the order of their application.
AppliedOf(e) == SelectSeq(applied, LAMBDA a : a.event = e)

\* C20: for each NewBlocks event the executor applies the blocks first_block,
\* first_block + 1, ... in ascending order, all num_blocks of them before a
\* proof is made, and applies a block only if the commitment of the fetched
\* block is the one read from the HotShot contract for that number; on a
\* mismatch or a failed read or fetch it returns for good, with neither that
\* block nor a later one executed and no proof submitted for the batch.
C20_ExecutorOrderingIntegrity ==
  /\ \A e \in 1..ex_events :
       LET batch == AppliedOf(e)
       IN  /\ \A k \in 1..Len(batch) :
                /\ batch[k].number = batch[k].first_block + (k - 1)
                /\ k <= batch[k].num_blocks
                /\ BlockCommit(batch[k].block) = batch[k].l1
           /\ \A j \in 1..Len(ex_submitted) :
                ex_submitted[j].event = e =>
                  Len(batch) = ex_submitted[j].num_blocks
  /\ \A j \in 1..(Len(applied) - 1) : applied[j].event <= applied[j + 1].event
  /\ [state |-> rollup_state]
       = [state |-> [j \in 1..Len(applied) |-> applied[j].block]]
  /\ ex_pc = "sending" =>
       Len(AppliedOf(ex_events)) = ex_event.val.num_blocks
  /\ (ex_exit.kind = "Some"
      /\ ex_exit.val.cause \in {"read", "deserialize", "fetch", "mismatch"}) =>
       /\ ex_pc = "exited"
       /\ ~ENABLED NextExecutor
       /\ ex_exit.val.event = ex_events
       /\ \A j \in 1..Len(applied) :
            applied[j].event = ex_exit.val.event =>
              applied[j].number < ex_exit.val.number
       /\ \A j \in 1..Len(ex_submitted) :
            ex_submitted[j].event # ex_exit.val.event
       /\ ex_pending = None

\* The second block of a batch of two did not match its L1 commitment, after
\* the first one was executed.
C20_Witness ==
  /\ ex_exit.kind = "Some" /\ ex_exit.val.cause = "mismatch"
  /\ ex_event.val.num_blocks = 2
  /\ Len(AppliedOf(ex_events)) = 1
  /\ ex_exit.val.number = ex_event.val.first_block + 1

\* The rollup state after the first n applied blocks.
StateAfter(n) == [j \in 1..n |-> applied[j].block]

\* How many blocks were applied before the first one of event e.
AppliedBefore(e) == Cardinality({j \in 1..Len(applied) : applied[j].event < e})

\* What a verify_blocks call about event e must carry.
AgreesWithBatch(call) ==
  LET batch == AppliedOf(call.event)
      before == AppliedBefore(call.event)
  IN  /\ call.num_blocks = Len(batch)
      /\ Len(batch) >= 1
      /\ Len(batch) = batch[1].num_blocks
      /\ call.state_comm
           = commitment_to_u256(StateCommit(StateAfter(before + Len(batch))))
      /\ call.proof.first_block = BlockHash(batch[1].block)
      /\ call.proof.last_block = BlockHash(batch[Len(batch)].block)
      /\ call.proof.old_state = StateCommit(StateAfter(before))
      /\ call.proof.new_state = StateCommit(StateAfter(before + Len(batch)))

\* The state commitment the rollup contract stores: that of the initial state
\* until a verify_blocks call is taken, then the state_comm of the last one.
ContractStateCommitment ==
  IF ex_submitted = <<>> THEN commitment_to_u256(StateCommit(<<>>))
  ELSE ex_submitted[Len(ex_submitted)].state_comm

\* C21: every verify_blocks(num_blocks, state_comm, proof) call of the executor
\* carries the commitment of the local state after exactly the num_blocks
\* blocks of its event, and a proof from the first block and old state of the
\* batch to its last block and new state; so whenever no batch is in progress
\* the local state commitment is the one the contract stores.
C21_StateProofAgreement ==
  /\ \A j \in 1..Len(ex_submitted) : AgreesWithBatch(ex_submitted[j])
  /\ ex_pending.kind = "Some" => AgreesWithBatch(ex_pending.val)
  /\ \A j \in 1..(Len(ex_submitted) - 1) :
       ex_submitted[j].event < ex_submitted[j + 1].event
  /\ (ex_pc = "stream"
      \/ (ex_exit.kind = "Some" /\ ex_exit.val.cause = "stream_end")) =>
       commitment_to_u256(StateCommit(rollup_state)) = ContractStateCommitment

\* Two batches were accepted, the second of two different blocks.
C21_Witness ==
  /\ ex_pc = "stream" /\ Len(ex_submitted) = 2
  /\ ex_submitted[2].num_blocks = 2
  /\ ex_submitted[2].proof.first_block # ex_submitted[2].proof.last_block

\* The first loop of from_transactions on the current input.
Loop ==
  BuilderLoop(txs, NsTableBuilder_fixed_overhead_byte_len, <<>>, max_block_size)

RECURSIVE SumOver(_, _)
SumOver(f, S) ==
  IF S = {} THEN 0
  ELSE LET x == CHOOSE y \in S : TRUE IN f[x] + SumOver(f, S \ {x})

\* How many transactions the loop appended to the namespace builders.
NumAppended ==
  SumOver([ns \in DOMAIN Loop.ns_builders |->
             Len(Loop.ns_builders[ns].tx_table_entries) \div W],
          DOMAIN Loop.ns_builders)

\* C22: the bytes counted for the accepted transactions, W + sum of
\* (len(payload) + W) + (distinct accepted namespaces) * ((8 + W) + W), are
\* exactly len(ns_payloads) + len(encode(ns_table)) of the payload returned,
\* neither fewer nor more; block_byte_len holds this count when the loop ends
\* without a break, and at a break the count with the rejected transaction;
\* the k-th transaction is accepted exactly when the count of the first k
\* transactions is at most max_block_size.
C22_BudgetExact ==
  Built =>
    LET n == NumAppended
        size == Len(ret.payload.raw_payload) + Len(ret.payload.ns_table)
    IN  /\ EncodedSize(SubSeq(txs, 1, n)) = size
        /\ ~Loop.truncated => Loop.block_byte_len = size /\ n = Len(txs)
        /\ Loop.truncated =>
             /\ n < Len(txs)
             /\ Loop.block_byte_len = EncodedSize(SubSeq(txs, 1, n + 1))
             /\ ~FitsIn(Loop.block_byte_len, max_block_size)
        /\ \A k \in 1..Len(txs) :
             k <= n <=> FitsIn(EncodedSize(SubSeq(txs, 1, k)), max_block_size)

\* Two transactions of two namespaces fill max_block_size to the last byte;
\* the third, of a namespace already present, is rejected.
C22_Witness ==
  /\ Built /\ Len(txs) = 3 /\ NumAppended = 2
  /\ txs[3].namespace = txs[1].namespace
  /\ txs[2].namespace # txs[1].namespace
  /\ max_block_size.hi = 0
  /\ Len(ret.payload.raw_payload) + Len(ret.payload.ns_table)
       = max_block_size.lo

\* C23: transaction_with_proof(meta, idx) is Some exactly when
\* transaction(idx) is Some, and then with the same transaction; it is None
\* only for an index out of bounds, because the VidCommon it makes up from the
\* payload's own bytes always agrees with the payload's byte length; and it
\* answers the same whatever metadata is passed.
C23_ProofLookupAgreement ==
  answer.kind = "transaction_with_proof" =>
    LET p == self.val
        index == answer.arg
        t == transaction(p, index)
        nsr == ns_range(p.ns_table, index.ns, byte_len(p))
        nsp == Slice(p.raw_payload, nsr[1], nsr[2])
    IN  /\ answer.val.kind \in {"None", "Some"}
        /\ answer.val.kind = "Some" <=> t.kind = "Some"
        /\ answer.val.kind = "Some" => answer.val.val.tx = t.val
        /\ answer.val.kind = "None" =>
             (~in_bounds(p.ns_table, index.ns) \/ index.tx >= num_txs(nsp))
        /\ is_consistent(byte_len(p),
                         disperse(vid_scheme(10), p.raw_payload).common)
        /\ \A meta \in {p.ns_table} \cup OtherMetadata :
             transaction_with_proof(p, meta, index) = answer.val

\* A transaction with its proof out of a payload made by from_bytes, from a
\* namespace whose table offset lies beyond the end of the payload.
C23_Witness ==
  /\ origin = "from_bytes" /\ answer.kind = "transaction_with_proof"
  /\ answer.val.kind = "Some"
  /\ answer.val.val.tx.payload # <<>>
  /\ read_ns_offset(in_table, answer.arg.ns) > Len(in_bytes)

\* C24: len(meta) is the number of indices iter() yields, whatever meta is
\* passed; txn_count() is len with the payload's own table; for a payload
\* built by from_transactions both are the number of accepted transactions,
\* and for genesis(), which is the payload of empty(), the count is 0.
C24_TransactionCount ==
  /\ answer.kind = "txn_count" =>
       /\ answer.val = len(self.val, ns_table(self.val))
       /\ \A meta \in {ns_table(self.val)} \cup OtherMetadata :
            len(self.val, meta) = answer.val
       /\ Built => answer.val = NumAppended
       /\ origin = "empty" => answer.val = 0
       /\ IterDone => Len(yielded) = answer.val
  /\ (self.kind = "Some" /\ iter.kind # "None") =>
       /\ Len(yielded) <= len(self.val, ns_table(self.val))
       /\ IterDone => Len(yielded) = len(self.val, ns_table(self.val))
  /\ origin = "empty" =>
       /\ genesis(usize_bits) = {self}
       /\ txn_count(self.val) = 0

\* A built payload of three transactions in two namespaces, counted and
\* iterated to the end.
C24_Witness ==
  /\ Built /\ IterDone /\ answer.kind = "txn_count"
  /\ answer.val = 3 /\ num_namespaces(self.val.ns_table) = 2

\* The batch of event e is fully executed and its proof not yet made.
FullyExecuted(e) ==
  /\ ex_events = e /\ ex_pc = "batch"
  /\ ex_i >= ex_event.val.num_blocks /\ ex_proofs # <<>>

ProofAccepted(e) == \E j \in 1..Len(ex_submitted) : ex_submitted[j].event = e

\* While a call is pending, a step either leaves the call, the event and the
\* state as they are (a failed send) or hands this very call to the contract.
RetrySameCall ==
  ex_pc = "sending" =>
    \/ /\ ex_pc' = "sending"
       /\ ex_pending' = ex_pending
       /\ UNCHANGED <<ex_events, ex_event, rollup_state, ex_submitted>>
    \/ /\ ex_pc' = "stream"
       /\ ex_submitted' = Append(ex_submitted, ex_pending.val)
       /\ UNCHANGED <<ex_events, ex_event, rollup_state>>

\* The next stream item is taken only when no call is pending and every batch
\* executed so far was accepted.
NextEventAfterAcceptance ==
  ex_events' # ex_events =>
    /\ ex_pc = "stream" /\ ex_pending = None
    /\ \A e \in 1..ex_events : AppliedOf(e) # <<>> => ProofAccepted(e)

\* C25: after a batch is executed the executor sends the same
\* verify_blocks(num_blocks, state_comm, proof) again and again until the
\* contract takes it, takes no further stream item before that, and so, if
\* contract_send does not fail for ever, every fully executed batch has its
\* proof accepted in the end, while its event is still the last one taken;
\* the accepted calls are in event order.
C25_SubmissionRetry ==
  /\ [][RetrySameCall /\ NextEventAfterAcceptance]_vars
  /\ [](\A j \in 1..(Len(ex_submitted) - 1) :
          ex_submitted[j].event < ex_submitted[j + 1].event)
  /\ [](ex_pc = "sending" <=> ex_pending.kind = "Some")
  /\ FullyExecuted(ex_events)
       ~> (ex_pc = "stream" /\ ProofAccepted(ex_events))

\* The second batch is being sent again after a failed send, the first one
\* having been accepted.
C25_Witness ==
  /\ ex_pc = "sending" /\ ex_retries >= 1
  /\ ex_events = 2 /\ Len(ex_submitted) = 1
  /\ ex_submitted[1].event = 1
  /\ ex_pending.val.event = 2

\* C26: an error item of the NewBlocks stream changes neither the rollup
\* state nor the calls sent or pending, executes no block and does not end
\* run_executor: the executor is back at the stream, where it takes the next
\* item, be it an event, another error or the end of the stream.
C26_StreamErrorSkipped ==
  /\ [][StreamError =>
          /\ ex_events' = ex_events + 1
          /\ UNCHANGED <<rollup_state, applied, ex_submitted, ex_pending,
                         ex_exit>>
          /\ ex_pc' = "stream" /\ ex_exit' = None]_vars
  /\ [](ex_pc = "stream" =>
          /\ ENABLED StreamEnd
          /\ ex_events < MaxEvents => ENABLED NewBlocks /\ ENABLED StreamError)

\* The first stream item was an error; the batch of the second was executed
\* and accepted.
C26_Witness ==
  /\ ex_pc = "stream" /\ ex_events = 2
  /\ Len(ex_submitted) = 1 /\ ex_submitted[1].event = 2
  /\ \A j \in 1..Len(applied) : applied[j].event = 2
  /\ rollup_state # <<>>

\* The catchup requests made on the StorageState.
CatchupCalls ==
  {c \in Callers : /\ api_calls[c].layer = "StorageState"
                   /\ api_calls[c].op \in CatchupOps}

\* C27: get_account and get_frontier of StorageState return the in-memory
\* result whenever it is Ok, without asking storage; storage is asked only
\* after the in-memory lookup failed, and then its result, Ok or Err, is what
\* the caller gets; the in-memory error is never returned.
C27_CatchupFallback ==
  \A c \in CatchupCalls :
    LET call == api_calls[c]
    IN  /\ call.sto.kind = "Some" =>
             call.mem.kind = "Some" /\ call.mem.val.kind = "Err"
        /\ call.pc = "storage" =>
             call.mem.kind = "Some" /\ call.mem.val.kind = "Err"
        /\ call.pc = "returned" =>
             /\ call.mem.kind = "Some" /\ call.ret.kind = "Some"
             /\ call.mem.val.kind = "Ok" =>
                  call.ret = call.mem /\ call.sto = None
             /\ call.mem.val.kind # "Ok" =>
                  /\ call.mem.val.kind = "Err"
                  /\ call.sto.kind = "Some"
                  /\ call.sto.val \in StorageResults
                  /\ call.ret = call.sto
             /\ call.ret.val # ErrFrom("memory")

\* One get_frontier got the error of storage after the in-memory lookup had
\* failed; another request got its answer from memory.
C27_Witness ==
  \E c, d \in CatchupCalls :
    /\ api_calls[c].op = "get_frontier" /\ api_calls[c].pc = "returned"
    /\ api_calls[c].mem.val.kind = "Err"
    /\ api_calls[c].ret = Some(ErrFrom("storage"))
    /\ api_calls[d].pc = "returned"
    /\ api_calls[d].ret = Some(OkFrom("memory"))

\* The cell is there and holds the value of the initialization future.
LazyReady == api_lazy.kind = "Some" /\ api_lazy.val.state = "ready"

\* What holds of the cell itself: the future is not started by the
\* construction, it is started by the first get() and by no later one, and
\* every caller that got a ConsensusState got the one value of the cell.
LazyOnce ==
  /\ api_lazy = None => \A c \in Callers : api_calls[c] = IdleCall
  /\ api_lazy.kind = "Some" =>
       /\ api_lazy.val.started <= 1
       /\ api_lazy.val.state = "uninit" <=> api_lazy.val.started = 0
       /\ api_lazy.val.state = "uninit" =>
            \A c \in Callers : api_calls[c].pc \in {"idle", "stream"}
       /\ api_lazy.val.state = "ready" <=> api_lazy.val.value.kind = "Some"
  /\ \A c \in Callers :
       api_calls[c].seen.kind = "Some" =>
         LazyReady /\ api_calls[c].seen = api_lazy.val.value
  /\ \A c, d \in Callers :
       (api_calls[c].seen.kind = "Some" /\ api_calls[d].seen.kind = "Some") =>
         api_calls[c].seen = api_calls[d].seen

\* C28 as claimed: ApiState::new does not wait for consensus; each of
\* consensus, node_state, state_signer, event_streamer, hotshot_config,
\* submit, event_stream, get_account and get_frontier returns a value only
\* after the initialization future has completed; the future is run at most
\* once and all callers see the same ConsensusState.
C28_AllAccessorsWait ==
  /\ LazyOnce
  /\ \A c \in Callers :
       api_calls[c].ret.kind = "Some" =>
         LazyReady /\ api_calls[c].seen = api_lazy.val.value

\* C28 as amended: ApiState::new does not wait for consensus; each of
\* consensus, node_state, state_signer, event_streamer, hotshot_config,
\* submit, get_account and get_frontier returns a value only after the
\* initialization future has completed; event_stream returns its stream at
\* once, without starting or awaiting the initialization, and that stream
\* waits for the initialization when it is first polled, so it yields nothing
\* before; the future is run at most once and all callers see the same
\* ConsensusState.
C28_LazyInit ==
  /\ LazyOnce
  /\ \A c \in Callers :
       LET call == api_calls[c]
       IN  /\ call.pc \in {"returned", "storage", "panicked"} =>
                LazyReady /\ call.seen = api_lazy.val.value
           /\ call.pc = "stream" => call.ret = Some(EventStream)
           /\ call.ret = Some(EventStream) =>
                /\ call.op = "event_stream"
                /\ call.pc \in {"stream", "get"}
                /\ call.seen = None
           /\ (call.ret.kind = "Some" /\ call.ret # Some(EventStream)) =>
                LazyReady /\ call.seen = api_lazy.val.value

\* Two callers were served by one run of the initialization: one through
\* submit of the StorageState, the other by polling its event stream.
C28_Witness ==
  /\ LazyReady /\ api_lazy.val.started = 1
  /\ \E c, d \in Callers :
       /\ api_calls[c].layer = "StorageState" /\ api_calls[c].op = "submit"
       /\ api_calls[c].pc = "returned"
       /\ api_calls[d].op = "event_stream" /\ api_calls[d].pc = "returned"
       /\ api_calls[c].seen = api_calls[d].seen
       /\ api_calls[c].seen.kind = "Some"

\* The rollup states left by complete batches whose proof the contract took.
AcceptedStates ==
  {s \in {StateAfter(n) : n \in 0..Len(applied)} :
     \E j \in 1..Len(ex_submitted) :
       ex_submitted[j].state_comm = commitment_to_u256(StateCommit(s))}

\* C29: whatever another task reads through the lock is the initial state or
\* the state after a complete batch whose proof the rollup contract has
\* accepted, never a state with only some blocks of a batch applied; also in
\* runs in which run_executor returns in the middle of a batch.
C29_StateVisibility ==
  ex_observed.kind = "Some" =>
    ex_observed.val = <<>> \/ ex_observed.val \in AcceptedStates

\* C30: for every NewBlocks event the executor processes, also one with
\* num_blocks = 0, BatchProof::generate gets a non-empty list of proofs, the
\* logged last block number first_block + num_blocks - 1 is not below 0, and
\* the executor does not panic.
C30_NoEmptyBatch ==
  /\ ex_pc # "panicked"
  /\ (ex_pc = "batch" /\ ex_i >= ex_event.val.num_blocks) =>
       /\ ex_proofs # <<>>
       /\ BatchProof_generate(ex_proofs).kind = "Ok"
       /\ ex_event.val.first_block + ex_event.val.num_blocks - 1 >= 0

====
